---- MODULE Spec2Model ----
(***************************************************************************)
(* Blind Stick Server: the voice-to-navigation pipeline of app/routes.py   *)
(* (navigate) and app/services.py (the gateways, the place extractor and   *)
(* the request store).                                                     *)
(*                                                                         *)
(* Conventions.  A Python str is a sequence of one-character strings.  An  *)
(* Optional[T] value is a set with at most one element: None is {} and a   *)
(* present value v is {v}.  Floats are integers.                           *)
(***************************************************************************)
EXTENDS Integers, Sequences, FiniteSets, TLC

\* ------------------------------------------------------------------------
\* Python values
\* ------------------------------------------------------------------------
None == {}

Some(v) == {v}

Val(o) == CHOOSE v \in o : TRUE

\* Python truthiness of an Optional[str], Optional[dict] or Optional[list]:
\* None, "" and [] are falsy.  (A dict with keys is truthy whatever it holds.)
Falsy(o) == o = None \/ o = Some(<<>>)

LowerOf ==
    [c \in {"A","B","C","D","E","F","G","H","I","J","K","L","M",
            "N","O","P","Q","R","S","T","U","V","W","X","Y","Z"} |->
        CASE c = "A" -> "a" [] c = "B" -> "b" [] c = "C" -> "c" [] c = "D" -> "d"
          [] c = "E" -> "e" [] c = "F" -> "f" [] c = "G" -> "g" [] c = "H" -> "h"
          [] c = "I" -> "i" [] c = "J" -> "j" [] c = "K" -> "k" [] c = "L" -> "l"
          [] c = "M" -> "m" [] c = "N" -> "n" [] c = "O" -> "o" [] c = "P" -> "p"
          [] c = "Q" -> "q" [] c = "R" -> "r" [] c = "S" -> "s" [] c = "T" -> "t"
          [] c = "U" -> "u" [] c = "V" -> "v" [] c = "W" -> "w" [] c = "X" -> "x"
          [] c = "Y" -> "y" [] c = "Z" -> "z"]

\* str.lower()
Lower(s) == [i \in 1..Len(s) |-> IF s[i] \in DOMAIN LowerOf THEN LowerOf[s[i]] ELSE s[i]]

\* the characters str.strip() removes and the regex class \s matches
IsSpace(c) == c \in {" ", "\t", "\n", "\r"}

\* str.strip()
Strip(s) ==
    LET keep == {i \in 1..Len(s) : ~IsSpace(s[i])}
    IN  IF keep = {} THEN <<>>
        ELSE LET lo == CHOOSE i \in keep : \A j \in keep : i <= j
                 hi == CHOOSE i \in keep : \A j \in keep : j <= i
             IN  SubSeq(s, lo, hi)

\* str.startswith(p)
StartsWith(s, p) == Len(p) <= Len(s) /\ SubSeq(s, 1, Len(p)) = p

\* " ".join(parts)
RECURSIVE JoinSpace(_)
JoinSpace(parts) ==
    IF parts = <<>> THEN <<>>
    ELSE IF Len(parts) = 1 THEN parts[1]
    ELSE parts[1] \o <<" ">> \o JoinSpace(Tail(parts))

\* the text s occurs inside the text t (Python: s in t)
Contains(t, s) == \E i \in 1..(Len(t) - Len(s) + 1) : SubSeq(t, i, i + Len(s) - 1) = s

\* ------------------------------------------------------------------------
\* PlaceExtractor: services.extract_place_name
\* ------------------------------------------------------------------------
\* the alternatives of the three regular expressions, in list order
patterns ==
    << << <<"t", "a", "k", "e", " ", "m", "e", " ", "t", "o">>,
          <<"g", "o", " ", "t", "o">>,
          <<"n", "a", "v", "i", "g", "a", "t", "e", " ", "t", "o">>,
          <<"d", "i", "r", "e", "c", "t", "i", "o", "n", " ", "t", "o">>,
          <<"f", "i", "n", "d">>,
          <<"s", "h", "o", "w", " ", "m", "e">>,
          <<"w", "h", "e", "r", "e", " ", "i", "s">> >>,
       << <<"h", "o", "w", " ", "d", "o", " ", "i", " ", "g", "e", "t", " ", "t", "o">>,
          <<"h", "o", "w", " ", "t", "o", " ", "r", "e", "a", "c", "h">>,
          <<"r", "o", "u", "t", "e", " ", "t", "o">> >>,
       << <<"i", " ", "w", "a", "n", "t", " ", "t", "o", " ", "g", "o", " ", "t", "o">>,
          <<"i", " ", "n", "e", "e", "d", " ", "t", "o", " ", "g", "o", " ", "t", "o">> >> >>

\* the phrase w stands at position i of s
HasAt(s, i, w) == i + Len(w) - 1 <= Len(s) /\ SubSeq(s, i, i + Len(w) - 1) = w

\* first position at or after j that holds no whitespace (greedy \s+)
RECURSIVE SkipSpace(_, _)
SkipSpace(s, j) == IF j <= Len(s) /\ IsSpace(s[j]) THEN SkipSpace(s, j + 1) ELSE j

\* last position of the greedy (.+) that starts at p: "." matches no newline
RECURSIVE DotPlusEnd(_, _)
DotPlusEnd(s, p) == IF p + 1 <= Len(s) /\ s[p + 1] # "\n" THEN DotPlusEnd(s, p + 1) ELSE p

\* Where group 1 of  w \s+ (.+)  starts when the phrase w stands at i, 0 when
\* the rest does not match.  \s+ is greedy and gives characters back only
\* when (.+) would otherwise have nothing to match.
GroupStart(s, i, w) ==
    LET j == i + Len(w)
        e == SkipSpace(s, j)
        back == {p \in (j + 1)..Len(s) : s[p] # "\n"}
    IN  IF ~HasAt(s, i, w) \/ e = j THEN 0
        ELSE IF e <= Len(s) THEN e
        ELSE IF back = {} THEN 0
        ELSE CHOOSE p \in back : \A q \in back : q <= p

\* the match of one alternation at position i: group start of the first
\* alternative that matches, 0 when none does
AltStart(s, i, alts) ==
    LET ok == {k \in 1..Len(alts) : GroupStart(s, i, alts[k]) > 0}
    IN  IF ok = {} THEN 0
        ELSE GroupStart(s, i, alts[CHOOSE k \in ok : \A m \in ok : k <= m])

\* re.search(pattern, s): group 1 of the leftmost match, None when no match
ReSearch(alts, s) ==
    LET at == {i \in 1..Len(s) : AltStart(s, i, alts) > 0}
    IN  IF at = {} THEN None
        ELSE LET i == CHOOSE a \in at : \A b \in at : a <= b
                 g == AltStart(s, i, alts)
             IN  Some(SubSeq(s, g, DotPlusEnd(s, g)))

\* re.sub(r'[?.!,]+$', '', place)
RECURSIVE StripTrailingPunct(_)
StripTrailingPunct(s) ==
    IF s # <<>> /\ s[Len(s)] \in {"?", ".", "!", ","}
    THEN StripTrailingPunct(SubSeq(s, 1, Len(s) - 1))
    ELSE s

\* variant: the loop runs over the patterns from the last to the first
RECURSIVE FirstPatternMatch_Reversed(_, _)
FirstPatternMatch_Reversed(text_lower, k) ==
    IF k > Len(patterns) THEN None
    ELSE LET match == ReSearch(patterns[Len(patterns) + 1 - k], text_lower)
         IN  IF match # None THEN Some(StripTrailingPunct(Strip(Val(match))))
             ELSE FirstPatternMatch_Reversed(text_lower, k + 1)

\* the loop over patterns, from pattern number k on
RECURSIVE FirstPatternMatch(_, _)
FirstPatternMatch(text_lower, k) ==
    IF k > Len(patterns) THEN None
    ELSE LET match == ReSearch(patterns[k], text_lower)
         IN  IF match # None THEN Some(StripTrailingPunct(Strip(Val(match))))
             ELSE FirstPatternMatch(text_lower, k + 1)

\* variant: the fallback hands back the lower-cased text
extract_place_name_FallbackLower(text) ==
    IF Falsy(text) THEN None
    ELSE LET text_lower == Strip(Lower(Val(text)))
             place == FirstPatternMatch(text_lower, 1)
         IN  IF place # None THEN place ELSE Some(text_lower)

\* text is an Optional[str]; the result is an Optional[str]
extract_place_name(text) ==
    IF Falsy(text) THEN None
    ELSE LET text_lower == Strip(Lower(Val(text)))
             place == FirstPatternMatch(text_lower, 1)
         IN  IF place # None THEN place ELSE Some(Strip(Val(text)))

\* "Google Maps API key not configured. Set GOOGLE_MAPS_API_KEY in .env"
ERR_CONFIG ==
    <<"G","o","o","g","l","e"," ","M","a","p","s"," ","A","P","I"," ",
      "k","e","y"," ","n","o","t"," ","c","o","n","f","i","g","u","r",
      "e","d","."," ","S","e","t"," ","G","O","O","G","L","E","_","M",
      "A","P","S","_","A","P","I","_","K","E","Y"," ","i","n"," ",".",
      "e","n","v">>

\* "Could not transcribe audio. Ensure Google Cloud Speech-to-Text is configured."
ERR_TRANSCRIBE ==
    <<"C","o","u","l","d"," ","n","o","t"," ","t","r","a","n","s","c",
      "r","i","b","e"," ","a","u","d","i","o","."," ","E","n","s","u",
      "r","e"," ","G","o","o","g","l","e"," ","C","l","o","u","d"," ",
      "S","p","e","e","c","h","-","t","o","-","T","e","x","t"," ","i",
      "s"," ","c","o","n","f","i","g","u","r","e","d",".">>

\* "Could not extract destination place from speech."
ERR_EXTRACT ==
    <<"C","o","u","l","d"," ","n","o","t"," ","e","x","t","r","a","c",
      "t"," ","d","e","s","t","i","n","a","t","i","o","n"," ","p","l",
      "a","c","e"," ","f","r","o","m"," ","s","p","e","e","c","h",".">>

\* "Could not find location for: "
ERR_GEOCODE_PREFIX ==
    <<"C","o","u","l","d"," ","n","o","t"," ","f","i","n","d"," ","l",
      "o","c","a","t","i","o","n"," ","f","o","r",":"," ">>

\* "Could not retrieve directions."
ERR_DIRECTIONS ==
    <<"C","o","u","l","d"," ","n","o","t"," ","r","e","t","r","i","e",
      "v","e"," ","d","i","r","e","c","t","i","o","n","s",".">>

\* ------------------------------------------------------------------------
\* Gateways (services.py).  Each takes, as its last argument, the answer of
\* the outside world to this one call: whether the client library is
\* importable, whether the call raises, and the payload the service returns.
\* ------------------------------------------------------------------------

\* Transcription Gateway.  ans.results is response.results; every result
\* carries alternatives[0].transcript and language_code.
\* Returns (transcript, detected_language_code).
transcribe_audio(audio_content, ans) ==
    IF ~ans.available THEN <<None, None>>
    ELSE IF ans.fault THEN <<None, None>>
    ELSE IF ans.results # <<>>
         THEN <<Some(JoinSpace([i \in 1..Len(ans.results) |-> ans.results[i].transcript])),
                Some(ans.results[1].language_code)>>
    ELSE <<None, None>>

\* the language the translation works with: the one handed in, or the one
\* client.detect_language reports (detection.get("language"))
TranslateSourceLang(source_lang, ans) ==
    IF Falsy(source_lang) THEN ans.language ELSE source_lang

\* variant: only the bare code "en" counts as English
IsEnglish_ExactEn(lang) == lang = Some(<<"e", "n">>)

\* "source_lang and source_lang.lower().startswith('en')"
IsEnglish(lang) == ~Falsy(lang) /\ StartsWith(Lower(Val(lang)), <<"e", "n">>)

\* translate_to_english leaves through "not GOOGLE_CLOUD_AVAILABLE" or
\* through its except clause: ans.fault names the call that raises, and a
\* call raises only if it is made
TranslateFails(source_lang, ans) ==
    \/ ~ans.available
    \/ ans.fault = "client"
    \/ Falsy(source_lang) /\ ans.fault = "detect"
    \/ ans.fault = "translate" /\ ~IsEnglish(TranslateSourceLang(source_lang, ans))

\* The calls translate_to_english makes on the google.cloud.translate_v2
\* client, in order: the constructor, detect_language when no language was
\* given, translate when the language is not English.  A call that raises
\* is the last one.
TranslateCalls(source_lang, ans) ==
    IF ~ans.available THEN <<>>
    ELSE IF ans.fault = "client" THEN <<"Client">>
    ELSE IF Falsy(source_lang) /\ ans.fault = "detect"
         THEN <<"Client", "detect_language">>
    ELSE (IF Falsy(source_lang) THEN <<"Client", "detect_language">>
          ELSE <<"Client">>)
         \o (IF IsEnglish(TranslateSourceLang(source_lang, ans)) THEN <<>>
             ELSE <<"translate">>)

\* variant: the fallback hands back the language it was given
translate_to_english_KeepsLang(text, source_lang, ans) ==
    IF TranslateFails(source_lang, ans) THEN <<Some(text), source_lang>>
    ELSE LET lang == TranslateSourceLang(source_lang, ans)
         IN  IF IsEnglish(lang) THEN <<Some(text), lang>>
             ELSE <<IF ans.translatedText # None THEN ans.translatedText ELSE Some(text),
                    lang>>

\* Translation Gateway.  Returns (translated_text, source_language).
translate_to_english(text, source_lang, ans) ==
    IF TranslateFails(source_lang, ans) THEN <<Some(text), None>>
    ELSE LET lang == TranslateSourceLang(source_lang, ans)
         IN  IF IsEnglish(lang) THEN <<Some(text), lang>>
             ELSE <<IF ans.translatedText # None THEN ans.translatedText ELSE Some(text),
                    lang>>

\* Geocoding Gateway.  ans.results is the list gmaps.geocode returns; only
\* results[0] is read.  Returns a dict or None.
geocode_place(place_name, gmaps_api_key, ans) ==
    IF ~ans.available \/ Falsy(place_name) THEN None
    ELSE IF ans.fault THEN None
    ELSE IF ans.results # <<>>
         THEN Some([lat |-> ans.results[1].lat,
                    lng |-> ans.results[1].lng,
                    formatted_address |->
                        IF ans.results[1].formatted_address # None
                        THEN Val(ans.results[1].formatted_address)
                        ELSE Val(place_name)])
    ELSE None

\* variant: the steps are collected back to front
DirectionSteps_Reversed(leg) ==
    [i \in 1..Len(leg.steps) |->
        [instruction |-> leg.steps[Len(leg.steps) + 1 - i].html_instructions,
         distance    |-> leg.steps[Len(leg.steps) + 1 - i].distance,
         duration    |-> leg.steps[Len(leg.steps) + 1 - i].duration,
         maneuver    |-> leg.steps[Len(leg.steps) + 1 - i].maneuver]]

\* the steps of a leg, as get_directions copies them
DirectionSteps(leg) ==
    [i \in 1..Len(leg.steps) |->
        [instruction |-> leg.steps[i].html_instructions,
         distance    |-> leg.steps[i].distance,
         duration    |-> leg.steps[i].duration,
         maneuver    |-> leg.steps[i].maneuver]]

\* Directions Gateway.  ans.result is the list gmaps.directions returns; a
\* route without legs makes route['legs'][0] raise, which the except clause
\* turns into None.  Returns a dict or None.
get_directions(origin_lat, origin_lng, dest_lat, dest_lng, gmaps_api_key, ans) ==
    IF ~ans.available THEN None
    ELSE IF ans.fault THEN None
    ELSE IF ans.result = <<>> THEN None
    ELSE IF ans.result[1].legs = <<>> THEN None
    ELSE LET route == ans.result[1]
             leg == route.legs[1]
         IN  Some([polyline |-> route.overview_polyline,
                   distance |-> leg.distance,
                   duration |-> leg.duration,
                   steps    |-> DirectionSteps(leg)])

\* ------------------------------------------------------------------------
\* Audio files and the request store
\* ------------------------------------------------------------------------
\* f"nav_{device_id}_{int(time.time())}.webm": int(...) prints digits only,
\* so the last "_" separates the two parts and the name determines both.
AudioFilename(device_id, t) == <<"nav_", device_id, "_", t, ".webm">>

\* f"web/uploads/{filename}"
AudioPath(filename) == <<"web/uploads/">> \o filename

\* services.save_audio_file: open(dest, 'wb') truncates, then writes
save_audio_file(fs, content, filename) ==
    [p \in DOMAIN fs \cup {AudioPath(filename)} |->
        IF p = AudioPath(filename) THEN content ELSE fs[p]]

\* variant: ids count from zero
NextId_FromZero(rows) == Len(rows)

\* the INTEGER PRIMARY KEY the store gives a new row: one more than the
\* largest id in the table
NextId(rows) == IF rows = <<>> THEN 1 ELSE rows[Len(rows)].id + 1

\* variant: the row is added twice
store_navigation_request_Twice(rows, fields) ==
    Append(Append(rows, [id |-> NextId(rows)] @@ fields),
           [id |-> NextId(rows) + 1] @@ fields)

\* services.store_navigation_request, db.add + db.commit: one row appended
store_navigation_request(rows, fields) ==
    Append(rows, [id |-> NextId(rows)] @@ fields)

\* ------------------------------------------------------------------------
\* State
\* ------------------------------------------------------------------------
VARIABLES
    req,        \* per request: its form fields, navigate's locals, its outcome
    records,    \* table navigation_requests, in insertion order
    files,      \* the uploads directory: path -> bytes
    now,        \* the latest reading of time.time(), in whole seconds
    environ,    \* os.environ of the server process
    probe,      \* one call of a function of services.py on its own: its
                \* arguments and, once applied, what it returned
    points,     \* table gps_points, in insertion order
    reply       \* the last answer of an endpoint other than /navigate

vars == <<req, records, files, now, environ, probe, points, reply>>

\* number of navigate requests a behaviour holds
MaxRequests == 2

\* largest clock reading
MaxTime == 1

Requests == 1..MaxRequests

\* config.API_KEY, its default
API_KEY == "change-me"

\* ------------------------------------------------------------------------
\* What the outside world may send and answer
\* ------------------------------------------------------------------------
TXT_GO_TO == <<"G", "o", " ", "t", "o">>

TXT_X_DOT == <<"X", ".">>

TXT_X == <<"X">>

TXT_B == <<"B">>

TXT_GO_TO_X == <<"G", "o", " ", "t", "o", " ", "X", ".">>

TXT_GO_TO_NOTHING == <<"g", "o", " ", "t", "o", " ", "?">>

LANG_EN_US == <<"e", "n", "-", "U", "S">>

LANG_EN == <<"e", "n">>

LANG_BN == <<"b", "n">>

\* the multipart forms a device (or anybody else) may post to /navigate;
\* lat and lng are plain floats of the form, so a form may carry any number
NavInputs ==
    { [device_id |-> "esp32-1", lat |-> 23, lng |-> 90, heading |-> Some(180),
       audio |-> "a1", x_api_key |-> Some("change-me")],
      [device_id |-> "esp32-1", lat |-> 91, lng |-> 181, heading |-> None,
       audio |-> "a2", x_api_key |-> Some("change-me")],
      [device_id |-> "esp32-1", lat |-> 23, lng |-> 90, heading |-> None,
       audio |-> "a1", x_api_key |-> Some("wrong")],
      [device_id |-> "esp32-1", lat |-> 23, lng |-> 90, heading |-> None,
       audio |-> "a1", x_api_key |-> None] }

SpeechAnswers ==
    { [available |-> FALSE, fault |-> FALSE, results |-> <<>>],
      [available |-> TRUE, fault |-> TRUE, results |-> <<>>],
      [available |-> TRUE, fault |-> FALSE, results |-> <<>>],
      [available |-> TRUE, fault |-> FALSE,
       results |-> << [transcript |-> <<>>, language_code |-> LANG_EN] >>],
      [available |-> TRUE, fault |-> FALSE,
       results |-> << [transcript |-> TXT_GO_TO, language_code |-> LANG_EN_US],
                      [transcript |-> TXT_X_DOT, language_code |-> LANG_BN] >>],
      [available |-> TRUE, fault |-> FALSE,
       results |-> << [transcript |-> TXT_B, language_code |-> LANG_BN] >>],
      [available |-> TRUE, fault |-> FALSE,
       results |-> << [transcript |-> TXT_X, language_code |-> <<>>] >>] }

TranslateAnswers ==
    { [available |-> FALSE, fault |-> "none", language |-> None, translatedText |-> None],
      [available |-> TRUE, fault |-> "client", language |-> None, translatedText |-> None],
      [available |-> TRUE, fault |-> "detect", language |-> None,
       translatedText |-> Some(TXT_GO_TO_X)],
      [available |-> TRUE, fault |-> "translate", language |-> Some(LANG_BN),
       translatedText |-> None],
      [available |-> TRUE, fault |-> "none", language |-> Some(LANG_EN),
       translatedText |-> Some(TXT_GO_TO_X)],
      [available |-> TRUE, fault |-> "none", language |-> None,
       translatedText |-> Some(TXT_GO_TO_NOTHING)],
      [available |-> TRUE, fault |-> "none", language |-> Some(LANG_BN),
       translatedText |-> None] }

ADDR_X == <<"X", ",", " ", "D", "h", "a", "k", "a">>

GeocodeAnswers ==
    { [available |-> FALSE, fault |-> FALSE, results |-> <<>>],
      [available |-> TRUE, fault |-> TRUE, results |-> <<>>],
      [available |-> TRUE, fault |-> FALSE, results |-> <<>>],
      [available |-> TRUE, fault |-> FALSE,
       results |-> << [lat |-> 25, lng |-> 92, formatted_address |-> Some(ADDR_X)],
                      [lat |-> 26, lng |-> 93, formatted_address |-> None] >>],
      [available |-> TRUE, fault |-> FALSE,
       results |-> << [lat |-> 26, lng |-> 93, formatted_address |-> None] >>] }

STEP_LEFT ==
    [html_instructions |-> <<"L">>, distance |-> <<"5", "m">>,
     duration |-> <<"1", "s">>, maneuver |-> Some(<<"l">>)]

STEP_AHEAD ==
    [html_instructions |-> <<"A">>, distance |-> <<"9", "m">>,
     duration |-> <<"2", "s">>, maneuver |-> None]

ROUTE_2 ==
    [overview_polyline |-> <<"p", "q">>,
     legs |-> << [distance |-> <<"1", "4", "m">>, duration |-> <<"3", "s">>,
                  steps |-> <<STEP_LEFT, STEP_AHEAD>>] >>]

ROUTE_0 ==
    [overview_polyline |-> <<>>,
     legs |-> << [distance |-> <<"0", "m">>, duration |-> <<"0", "s">>,
                  steps |-> <<>>] >>]

ROUTE_NO_LEGS == [overview_polyline |-> <<>>, legs |-> <<>>]

DirectionsAnswers ==
    { [available |-> FALSE, fault |-> FALSE, result |-> <<>>],
      [available |-> TRUE, fault |-> TRUE, result |-> <<>>],
      [available |-> TRUE, fault |-> FALSE, result |-> <<>>],
      [available |-> TRUE, fault |-> FALSE, result |-> <<ROUTE_NO_LEGS>>],
      [available |-> TRUE, fault |-> FALSE, result |-> <<ROUTE_0>>],
      [available |-> TRUE, fault |-> FALSE, result |-> <<ROUTE_2, ROUTE_0>>] }

\* what the store does with one write: commit it, raise in db.commit()
\* (nothing written), or raise in db.refresh() (the row is already written)
StoreAnswers == {"ok", "commit_raises", "refresh_raises"}

\* ------------------------------------------------------------------------
\* schemas.NavigationResponse and the handler navigate (routes.py)
\* ------------------------------------------------------------------------
\* the defaults of the optional fields
NavigationResponseDefaults ==
    [transcript |-> None, detected_language |-> None, destination_place |-> None,
     destination_lat |-> None, destination_lng |-> None, distance_text |-> None,
     duration_text |-> None, overview_polyline |-> None, steps |-> <<>>,
     error |-> None]

NavigationResponse(given) == given @@ NavigationResponseDefaults

\* routes.py 171-175
ConfigErrorResponse ==
    NavigationResponse([success |-> FALSE, request_id |-> 0, error |-> Some(ERR_CONFIG)])

\* routes.py 187-191
TranscribeFailureResponse(q) ==
    NavigationResponse([success |-> FALSE, request_id |-> 0,
                        error |-> Some(ERR_TRANSCRIBE)])

\* variant: the transcript is left out of the failure response
ExtractFailureResponse_NoTranscript(q) ==
    NavigationResponse([success |-> FALSE, request_id |-> 0,
                        detected_language |-> q.source_lang,
                        error |-> Some(ERR_EXTRACT)])

\* routes.py 199-205
ExtractFailureResponse(q) ==
    NavigationResponse([success |-> FALSE, request_id |-> 0,
                        transcript |-> q.transcript,
                        detected_language |-> q.source_lang,
                        error |-> Some(ERR_EXTRACT)])

\* variant: the error message does not name the place
GeocodeFailureResponse_NoPlaceInError(q) ==
    NavigationResponse([success |-> FALSE, request_id |-> 0,
                        transcript |-> q.transcript,
                        detected_language |-> q.source_lang,
                        destination_place |-> q.place_name,
                        error |-> Some(ERR_GEOCODE_PREFIX)])

\* routes.py 210-217
GeocodeFailureResponse(q) ==
    NavigationResponse([success |-> FALSE, request_id |-> 0,
                        transcript |-> q.transcript,
                        detected_language |-> q.source_lang,
                        destination_place |-> q.place_name,
                        error |-> Some(ERR_GEOCODE_PREFIX \o Val(q.place_name))])

\* routes.py 219-221 and 226-235
DirectionsFailureResponse(q) ==
    NavigationResponse([success |-> FALSE, request_id |-> 0,
                        transcript |-> q.transcript,
                        detected_language |-> q.source_lang,
                        destination_place |-> Some(Val(q.geocode_result).formatted_address),
                        destination_lat |-> Some(Val(q.geocode_result).lat),
                        destination_lng |-> Some(Val(q.geocode_result).lng),
                        error |-> Some(ERR_DIRECTIONS)])

\* variant: only a request without the header is turned away
Unauthorized_AbsentOnly(x_api_key) == x_api_key = None

\* routes._auth_or_401 raises
Unauthorized(x_api_key) == x_api_key # Some(API_KEY)

\* a request that has not arrived
IdleRequest ==
    [pc |-> "idle", device_id |-> "", lat |-> 0, lng |-> 0, heading |-> None,
     audio |-> "", x_api_key |-> None,
     audio_path |-> None, transcript |-> None, detected_lang |-> None,
     translated_text |-> None, source_lang |-> None, place_name |-> None,
     geocode_result |-> None, directions |-> None,
     http |-> 0, response |-> None,
     \* history, not read by the program: the stages invoked with their
     \* results, the steps of the route as the routing service sent them,
     \* the ids of the rows this request inserted
     log |-> <<>>, gw_steps |-> None, rec_ids |-> {}]

\* navigate returns the response resp
Return(q, resp) == [q EXCEPT !.pc = "done", !.http = 200, !.response = Some(resp)]

\* an exception leaves navigate: HTTPException(401) or an unhandled one (500)
Raise(q, status) == [q EXCEPT !.pc = "done", !.http = status]

\* the stage was invoked and ended with result
Logged(q, stage, result) == [q EXCEPT !.log = Append(@, <<stage, result>>)]

Init ==
    /\ req = [r \in Requests |-> IdleRequest]
    /\ records = <<>>
    /\ files = <<>>
    /\ now = 0
    /\ environ \in [GOOGLE_MAPS_API_KEY : {None, Some(<<>>), Some(<<"k">>)}]
    /\ probe = [op |-> "none"]
    /\ points = <<>>
    /\ reply = [op |-> "none"]

\* variant: only an unset GOOGLE_MAPS_API_KEY counts as not configured
Receive_UnsetOnly(r) ==
    /\ req[r].pc = "idle"
    /\ IF r = 1 THEN TRUE ELSE req[r - 1].pc # "idle"
    /\ \E inp \in NavInputs :
        LET q == [req[r] EXCEPT !.device_id = inp.device_id, !.lat = inp.lat,
                                !.lng = inp.lng, !.heading = inp.heading,
                                !.audio = inp.audio, !.x_api_key = inp.x_api_key]
        IN  req' = [req EXCEPT ![r] =
                IF Unauthorized(inp.x_api_key) THEN Raise(q, 401)
                ELSE IF environ.GOOGLE_MAPS_API_KEY = None
                THEN Return(q, ConfigErrorResponse)
                ELSE [q EXCEPT !.pc = "save_audio"]]
    /\ UNCHANGED <<records, files, now, environ, probe, points, reply>>

\* routes.py 145-175: the form arrives, the key is checked, the credential
\* of the routing service is looked up
Receive(r) ==
    /\ req[r].pc = "idle"
    /\ IF r = 1 THEN TRUE ELSE req[r - 1].pc # "idle"
    /\ \E inp \in NavInputs :
        LET q == [req[r] EXCEPT !.device_id = inp.device_id, !.lat = inp.lat,
                                !.lng = inp.lng, !.heading = inp.heading,
                                !.audio = inp.audio, !.x_api_key = inp.x_api_key]
        IN  req' = [req EXCEPT ![r] =
                IF Unauthorized(inp.x_api_key) THEN Raise(q, 401)
                ELSE IF Falsy(environ.GOOGLE_MAPS_API_KEY)
                THEN Return(q, ConfigErrorResponse)
                ELSE [q EXCEPT !.pc = "save_audio"]]
    /\ UNCHANGED <<records, files, now, environ, probe, points, reply>>

\* routes.py 177-182: read the upload, name the file after the device and
\* the clock, write it
SaveAudio(r) ==
    /\ req[r].pc = "save_audio"
    /\ \E t \in now..MaxTime, ok \in BOOLEAN :
        LET filename == AudioFilename(req[r].device_id, t)
        IN  /\ now' = t
            /\ IF ok
               THEN /\ files' = save_audio_file(files, req[r].audio, filename)
                    /\ req' = [req EXCEPT ![r] =
                                Logged([@ EXCEPT !.pc = "transcribe",
                                                 !.audio_path = Some(AudioPath(filename))],
                                       "save_audio", "ok")]
               ELSE /\ files' = files
                    /\ req' = [req EXCEPT ![r] = Raise(Logged(@, "save_audio", "raise"), 500)]
    /\ UNCHANGED <<records, environ, probe, points, reply>>

\* variant: the missing transcript does not end the request
Transcribe_FallsThrough(r) ==
    /\ req[r].pc = "transcribe"
    /\ \E ans \in SpeechAnswers :
        LET res == transcribe_audio(req[r].audio, ans)
            q == [req[r] EXCEPT !.transcript = res[1], !.detected_lang = res[2]]
        IN  req' = [req EXCEPT ![r] =
                Logged([q EXCEPT !.pc = "translate"], "transcribe",
                       IF Falsy(q.transcript) THEN "none" ELSE "ok")]
    /\ UNCHANGED <<records, files, now, environ, probe, points, reply>>

\* routes.py 184-191
Transcribe(r) ==
    /\ req[r].pc = "transcribe"
    /\ \E ans \in SpeechAnswers :
        LET res == transcribe_audio(req[r].audio, ans)
            q == [req[r] EXCEPT !.transcript = res[1], !.detected_lang = res[2]]
        IN  req' = [req EXCEPT ![r] =
                IF Falsy(q.transcript)
                THEN Return(Logged(q, "transcribe", "none"), TranscribeFailureResponse(q))
                ELSE Logged([q EXCEPT !.pc = "translate"], "transcribe", "ok")]
    /\ UNCHANGED <<records, files, now, environ, probe, points, reply>>

\* routes.py 193-194
Translate(r) ==
    /\ req[r].pc = "translate"
    /\ \E ans \in TranslateAnswers :
        LET res == translate_to_english(Val(req[r].transcript), req[r].detected_lang, ans)
            q == [req[r] EXCEPT !.translated_text = res[1], !.source_lang = res[2],
                                !.pc = "extract"]
        IN  req' = [req EXCEPT ![r] =
                Logged(q, "translate",
                       IF TranslateFails(req[r].detected_lang, ans) THEN "degraded" ELSE "ok")]
    /\ UNCHANGED <<records, files, now, environ, probe, points, reply>>

\* variant: the place is taken from the transcript as it was spoken
Extract_FromTranscript(r) ==
    /\ req[r].pc = "extract"
    /\ LET q == [req[r] EXCEPT !.place_name = extract_place_name(req[r].transcript)]
       IN  req' = [req EXCEPT ![r] =
                IF Falsy(q.place_name)
                THEN Return(Logged(q, "extract", "none"), ExtractFailureResponse(q))
                ELSE Logged([q EXCEPT !.pc = "geocode"], "extract", "ok")]
    /\ UNCHANGED <<records, files, now, environ, probe, points, reply>>

\* variant: the text to extract from is kept in a module-level variable the
\* first request in flight has written
Extract_SharedText(r) ==
    /\ req[r].pc = "extract"
    /\ LET q == [req[r] EXCEPT !.place_name = extract_place_name(req[1].translated_text)]
       IN  req' = [req EXCEPT ![r] =
                IF Falsy(q.place_name)
                THEN Return(Logged(q, "extract", "none"), ExtractFailureResponse(q))
                ELSE Logged([q EXCEPT !.pc = "geocode"], "extract", "ok")]
    /\ UNCHANGED <<records, files, now, environ, probe, points, reply>>

\* routes.py 196-205
Extract(r) ==
    /\ req[r].pc = "extract"
    /\ LET q == [req[r] EXCEPT !.place_name = extract_place_name(req[r].translated_text)]
       IN  req' = [req EXCEPT ![r] =
                IF Falsy(q.place_name)
                THEN Return(Logged(q, "extract", "none"), ExtractFailureResponse(q))
                ELSE Logged([q EXCEPT !.pc = "geocode"], "extract", "ok")]
    /\ UNCHANGED <<records, files, now, environ, probe, points, reply>>

\* routes.py 207-221
Geocode(r) ==
    /\ req[r].pc = "geocode"
    /\ \E ans \in GeocodeAnswers :
        LET q == [req[r] EXCEPT !.geocode_result =
                    geocode_place(req[r].place_name, Val(environ.GOOGLE_MAPS_API_KEY), ans)]
        IN  req' = [req EXCEPT ![r] =
                IF q.geocode_result = None
                THEN Return(Logged(q, "geocode", "none"), GeocodeFailureResponse(q))
                ELSE Logged([q EXCEPT !.pc = "directions"], "geocode", "ok")]
    /\ UNCHANGED <<records, files, now, environ, probe, points, reply>>

\* routes.py 223-235
Directions(r) ==
    /\ req[r].pc = "directions"
    /\ \E ans \in DirectionsAnswers :
        LET dest == Val(req[r].geocode_result)
            q == [req[r] EXCEPT
                    !.directions =
                        get_directions(req[r].lat, req[r].lng, dest.lat, dest.lng,
                                       Val(environ.GOOGLE_MAPS_API_KEY), ans),
                    !.gw_steps =
                        IF ans.available /\ ~ans.fault /\ ans.result # <<>>
                           /\ ans.result[1].legs # <<>>
                        THEN Some(ans.result[1].legs[1].steps) ELSE None]
        IN  req' = [req EXCEPT ![r] =
                IF q.directions = None
                THEN Return(Logged(q, "directions", "none"), DirectionsFailureResponse(q))
                ELSE Logged([q EXCEPT !.pc = "store"], "directions", "ok")]
    /\ UNCHANGED <<records, files, now, environ, probe, points, reply>>

\* variant: the record keeps the place as it was extracted from the speech
StoreFields_PlaceText(q) ==
    [device_id |-> q.device_id, origin_lat |-> q.lat, origin_lng |-> q.lng,
     heading |-> q.heading, transcript |-> q.transcript,
     detected_language |-> q.source_lang, translated_text |-> q.translated_text,
     destination_place |-> q.place_name,
     destination_lat |-> Some(Val(q.geocode_result).lat),
     destination_lng |-> Some(Val(q.geocode_result).lng),
     audio_path |-> q.audio_path]

\* routes.py 238-250: the keyword arguments of store_navigation_request
StoreFields(q) ==
    [device_id |-> q.device_id, origin_lat |-> q.lat, origin_lng |-> q.lng,
     heading |-> q.heading, transcript |-> q.transcript,
     detected_language |-> q.source_lang, translated_text |-> q.translated_text,
     destination_place |-> Some(Val(q.geocode_result).formatted_address),
     destination_lat |-> Some(Val(q.geocode_result).lat),
     destination_lng |-> Some(Val(q.geocode_result).lng),
     audio_path |-> q.audio_path]

\* routes.py 253-261
NavigationSteps(directions) ==
    [i \in 1..Len(directions.steps) |->
        [instruction |-> directions.steps[i].instruction,
         distance    |-> directions.steps[i].distance,
         duration    |-> directions.steps[i].duration,
         maneuver    |-> directions.steps[i].maneuver]]

\* routes.py 263-275
SuccessResponse(q, id) ==
    NavigationResponse(
        [success |-> TRUE, request_id |-> id,
         transcript |-> q.transcript,
         detected_language |-> q.source_lang,
         destination_place |-> Some(Val(q.geocode_result).formatted_address),
         destination_lat |-> Some(Val(q.geocode_result).lat),
         destination_lng |-> Some(Val(q.geocode_result).lng),
         distance_text |-> Some(Val(q.directions).distance),
         duration_text |-> Some(Val(q.directions).duration),
         overview_polyline |-> Some(Val(q.directions).polyline),
         steps |-> NavigationSteps(Val(q.directions))])

\* routes.py 237-275: write the record, build the steps, answer
Store(r) ==
    /\ req[r].pc = "store"
    /\ \E out \in StoreAnswers :
        /\ records' = IF out = "commit_raises" THEN records
                      ELSE store_navigation_request(records, StoreFields(req[r]))
        /\ req' = [req EXCEPT ![r] =
                LET q == [@ EXCEPT !.rec_ids =
                            IF out = "commit_raises" THEN {} ELSE {NextId(records)}]
                IN  IF out = "ok"
                    THEN Return(Logged(q, "store", "ok"), SuccessResponse(q, NextId(records)))
                    ELSE Raise(Logged(q, "store", IF out = "commit_raises" THEN "raise"
                                                  ELSE "raise_after_commit"), 500)]
    /\ UNCHANGED <<files, now, environ, probe, points, reply>>

Next ==
    \E r \in Requests :
        \/ Receive(r)
        \/ SaveAudio(r)
        \/ Transcribe(r)
        \/ Translate(r)
        \/ Extract(r)
        \/ Geocode(r)
        \/ Directions(r)
        \/ Store(r)

Spec == Init /\ [][Next]_vars

\* ------------------------------------------------------------------------
\* A gateway call that never answers.  The handler passes no timeout or
\* deadline to any client call and runs none of them under a timer: the
\* request waits inside the call.
\* ------------------------------------------------------------------------
GatewayStages == {"transcribe", "translate", "geocode", "directions"}

\* the service never answers the call the request is making
Hang(r) ==
    /\ req[r].pc \in GatewayStages
    /\ req' = [req EXCEPT ![r] =
                [Logged(req[r], req[r].pc, "no_answer") EXCEPT !.pc = "blocked"]]
    /\ UNCHANGED <<records, files, now, environ, probe, points, reply>>

\* the steps of the server for the first request
ServerStep ==
    \/ Receive(1)
    \/ SaveAudio(1)
    \/ Transcribe(1)
    \/ Translate(1)
    \/ Extract(1)
    \/ Geocode(1)
    \/ Directions(1)
    \/ Store(1)

NextHang == ServerStep \/ Hang(1)

\* the steps that remain once the place is extracted
RoutingStep == Geocode(1) \/ Directions(1) \/ Store(1)

\* the server keeps running: from geocoding on, a step the handler can take
\* is taken
SpecHang == Init /\ [][NextHang]_vars /\ WF_vars(RoutingStep)

\* ------------------------------------------------------------------------
\* The functions of services.py on their own.  The server is at rest; probe
\* holds the arguments of one call and, after the call, what it returned.
\* ------------------------------------------------------------------------
ServerAtRest ==
    /\ req = [r \in Requests |-> IdleRequest]
    /\ records = <<>>
    /\ files = <<>>
    /\ now = 0
    /\ environ = [GOOGLE_MAPS_API_KEY |-> None]
    /\ points = <<>>
    /\ reply = [op |-> "none"]

\* language codes a caller passes as source_lang
ProbeLanguages ==
    {None, Some(<<>>), Some(LANG_EN), Some(LANG_EN_US), Some(<<"E", "N">>),
     Some(LANG_BN)}

\* what the translate client does when called: whether the library is
\* importable, which call raises, the language detect_language reports and
\* the translatedText of the result of translate (None: key missing)
TranslateProbeAnswers ==
    [available : BOOLEAN,
     fault : {"none", "client", "detect", "translate"},
     language : {None, Some(LANG_EN), Some(LANG_EN_US), Some(LANG_BN)},
     translatedText : {None, Some(TXT_GO_TO_X)}]

InitTranslate ==
    /\ ServerAtRest
    /\ \E text \in {TXT_B, TXT_X, TXT_GO_TO_X} :
       \E source_lang \in ProbeLanguages :
       \E ans \in TranslateProbeAnswers :
          probe = [op |-> "translate", done |-> FALSE, text |-> text,
                   source_lang |-> source_lang, ans |-> ans,
                   result |-> <<None, None>>, calls |-> <<>>,
                   again |-> <<None, None>>]

\* translate_to_english(text, source_lang), and then once more on what it
\* returned
ApplyTranslate ==
    /\ probe.op = "translate"
    /\ ~probe.done
    /\ LET result == translate_to_english(probe.text, probe.source_lang, probe.ans)
       IN  probe' = [probe EXCEPT
                        !.done = TRUE,
                        !.result = result,
                        !.calls = TranslateCalls(probe.source_lang, probe.ans),
                        !.again = translate_to_english(Val(result[1]), result[2],
                                                       probe.ans)]
    /\ UNCHANGED <<req, records, files, now, environ, points, reply>>

NextTranslate == ApplyTranslate

SpecTranslate == InitTranslate /\ [][NextTranslate]_vars

\* ------------------------------------------------------------------------
\* extract_place_name on its own.  A spoken text is put together from
\* leading whitespace, up to two navigation phrases, each followed by a gap,
\* and a remainder of at most MaxBody characters.
\* ------------------------------------------------------------------------
MaxBody == 3

TAKE_ME_TO_CAPS == <<"T", "a", "k", "e", " ", "M", "E", " ", "T", "o">>

\* spellings of the phrase that opens the text (<<>>: no phrase)
SpokenPhrases ==
    {<<>>, patterns[1][1], TAKE_ME_TO_CAPS, patterns[1][2], patterns[1][5],
     patterns[1][7], patterns[2][2], patterns[2][3], patterns[3][1]}

\* spellings of a phrase inside the text
InnerPhrases == {<<>>, patterns[1][2], patterns[1][7], patterns[2][3]}

BodyChars == {"x", "Q", " ", ".", "?"}

Bodies == UNION {[1..n -> BodyChars] : n \in 0..MaxBody}

TextParts ==
    [lead : {<<>>, <<" ">>},
     phrase : SpokenPhrases,
     gap : {<<>>, <<" ">>, <<" ", "\n">>},
     inner : InnerPhrases,
     gap2 : {<<>>, <<" ">>},
     body : Bodies]

\* the text the parts spell
TextOf(parts) ==
    parts.lead \o parts.phrase \o parts.gap \o parts.inner \o parts.gap2 \o parts.body

NoParts ==
    [lead |-> <<>>, phrase |-> <<>>, gap |-> <<>>, inner |-> <<>>, gap2 |-> <<>>,
     body |-> <<>>]

InitExtract ==
    /\ ServerAtRest
    /\ \/ probe = [op |-> "extract", done |-> FALSE, parts |-> NoParts,
                   text |-> None, result |-> None]
       \/ \E parts \in TextParts :
             probe = [op |-> "extract", done |-> FALSE, parts |-> parts,
                      text |-> Some(TextOf(parts)), result |-> None]

\* extract_place_name(text)
ApplyExtract ==
    /\ probe.op = "extract"
    /\ ~probe.done
    /\ probe' = [probe EXCEPT !.done = TRUE,
                              !.result = extract_place_name(probe.text)]
    /\ UNCHANGED <<req, records, files, now, environ, points, reply>>

NextExtract == ApplyExtract

SpecExtract == InitExtract /\ [][NextExtract]_vars

\* ------------------------------------------------------------------------
\* The four gateway functions and the exceptions raised inside them
\* ------------------------------------------------------------------------
Gateways == {"transcribe", "translate", "geocode", "directions"}

\* the calls a gateway function makes that can raise: building the client
\* and the remote calls on it
GatewayCalls(gateway) ==
    CASE gateway = "transcribe" -> {"client", "recognize"}
      [] gateway = "translate"  -> {"client", "detect", "translate"}
      [] gateway = "geocode"    -> {"client", "geocode"}
      [] gateway = "directions" -> {"client", "directions"}

\* variant: geocode_place builds its client before the try statement
GuardedCalls_ClientOutside(gateway) ==
    CASE gateway = "transcribe" -> {"client", "recognize"}
      [] gateway = "translate"  -> {"client", "detect", "translate"}
      [] gateway = "geocode"    -> {"geocode"}
      [] gateway = "directions" -> {"client", "directions"}

\* the calls that stand inside the try statement of the gateway function,
\* whose "except Exception" returns the fallback
GuardedCalls(gateway) ==
    CASE gateway = "transcribe" -> {"client", "recognize"}
      [] gateway = "translate"  -> {"client", "detect", "translate"}
      [] gateway = "geocode"    -> {"client", "geocode"}
      [] gateway = "directions" -> {"client", "directions"}

\* the arguments a gateway function is called with
GatewayArgs(gateway) ==
    CASE gateway = "transcribe" ->
            {[audio |-> "a1", text |-> <<>>, source_lang |-> None, place_name |-> None]}
      [] gateway = "translate" ->
            {[audio |-> "", text |-> t, source_lang |-> l, place_name |-> None] :
                t \in {TXT_B, TXT_GO_TO_X}, l \in ProbeLanguages}
      [] gateway = "geocode" ->
            {[audio |-> "", text |-> <<>>, source_lang |-> None, place_name |-> p] :
                p \in {Some(TXT_X), Some(<<>>)}}
      [] gateway = "directions" ->
            {[audio |-> "", text |-> <<>>, source_lang |-> None, place_name |-> None]}

\* what the service behind a gateway answers
GatewayAnswers(gateway) ==
    CASE gateway = "transcribe" -> SpeechAnswers
      [] gateway = "translate"  -> TranslateProbeAnswers
      [] gateway = "geocode"    -> GeocodeAnswers
      [] gateway = "directions" -> DirectionsAnswers

\* the answer ans, with the call named by raises raising ("none": no call
\* raises)
Raising(gateway, ans, raises) ==
    IF gateway = "translate" THEN [ans EXCEPT !.fault = raises]
    ELSE [ans EXCEPT !.fault = (raises # "none")]

\* the gateway function gets as far as making the call
CallMade(gateway, args, ans, call) ==
    CASE gateway = "transcribe" -> ans.available
      [] gateway = "translate" ->
            /\ ans.available
            /\ \/ call = "client"
               \/ call = "detect" /\ Falsy(args.source_lang)
               \/ call = "translate"
                    /\ ~IsEnglish(TranslateSourceLang(args.source_lang, ans))
      [] gateway = "geocode" -> ans.available /\ ~Falsy(args.place_name)
      [] gateway = "directions" -> ans.available

\* what the gateway function returns
GatewayReturn(gateway, args, ans) ==
    CASE gateway = "transcribe" -> transcribe_audio(args.audio, ans)
      [] gateway = "translate" -> translate_to_english(args.text, args.source_lang, ans)
      [] gateway = "geocode" -> geocode_place(args.place_name, <<"k">>, ans)
      [] gateway = "directions" -> get_directions(23, 90, 25, 92, <<"k">>, ans)

\* One call of a gateway function as its caller sees it: an exception
\* raised by a call outside the try statement leaves the function, anything
\* else ends in a return value.
GatewayOutcome(gateway, args, ans, raises) ==
    IF /\ raises # "none"
       /\ CallMade(gateway, args, ans, raises)
       /\ raises \notin GuardedCalls(gateway)
    THEN [raised |-> TRUE, value |-> <<>>]
    ELSE [raised |-> FALSE, value |-> GatewayReturn(gateway, args, ans)]

InitGateway ==
    /\ ServerAtRest
    /\ \E gateway \in Gateways :
       \E raises \in {"none"} \cup GatewayCalls(gateway) :
       \E args \in GatewayArgs(gateway) :
       \E ans \in GatewayAnswers(gateway) :
          probe = [op |-> "gateway", done |-> FALSE, gateway |-> gateway,
                   raises |-> raises, args |-> args,
                   ans |-> Raising(gateway, ans, raises),
                   outcome |-> [raised |-> FALSE, value |-> <<>>]]

\* the orchestrator calls the gateway function
ApplyGateway ==
    /\ probe.op = "gateway"
    /\ ~probe.done
    /\ probe' = [probe EXCEPT
                    !.done = TRUE,
                    !.outcome = GatewayOutcome(probe.gateway, probe.args,
                                               probe.ans, probe.raises)]
    /\ UNCHANGED <<req, records, files, now, environ, points, reply>>

NextGateway == ApplyGateway

SpecGateway == InitGateway /\ [][NextGateway]_vars

\* ------------------------------------------------------------------------
\* The GPS endpoints and the pages.  Two applications serve them: the router
\* of routes.py and the application app of main.py; both keep their points
\* in the table gps_points of the same database.
\* ------------------------------------------------------------------------
\* number of rows gps_points holds at most
MaxPoints == 2

Apps == {"main", "router"}

Devices == {"esp32-1", "esp32-2"}

\* the paths an application answers to a GET without parameters
\* (main.py: /health, /map; routes.py: /, /health, /map, /voice)
StaticRoutes(app) ==
    IF app = "main" THEN {"/health", "/map"}
    ELSE {"/", "/health", "/map", "/voice"}

StaticPaths == {"/", "/health", "/map", "/voice"}

\* a timestamp text of a device: ISO 8601 or not; when it is, the reading of
\* the device's clock and its zone (Z, or an offset to UTC)
TsText(iso, clock, z, offset) ==
    [iso |-> iso, clock |-> clock, z |-> z, offset |-> offset]

\* the bodies posted to /receive_gps, each with the X-API-Key header sent
GpsInputs ==
    { [device_id |-> "esp32-1", lat |-> 23, lon |-> 90, hdop |-> None,
       ts |-> None, x_api_key |-> Some("change-me")],
      [device_id |-> "esp32-1", lat |-> 23, lon |-> 90, hdop |-> Some(2),
       ts |-> Some(TsText(TRUE, 0, TRUE, 0)), x_api_key |-> Some("change-me")],
      [device_id |-> "esp32-2", lat |-> -90, lon |-> 180, hdop |-> None,
       ts |-> Some(TsText(TRUE, 1, FALSE, 1)), x_api_key |-> Some("change-me")],
      [device_id |-> "esp32-1", lat |-> 24, lon |-> 91, hdop |-> None,
       ts |-> Some(TsText(FALSE, 0, FALSE, 0)), x_api_key |-> Some("wrong")],
      [device_id |-> "esp32-1", lat |-> 24, lon |-> 91, hdop |-> None,
       ts |-> None, x_api_key |-> None],
      [device_id |-> "esp32-1", lat |-> 91, lon |-> 90, hdop |-> None,
       ts |-> None, x_api_key |-> Some("change-me")] }

\* the values of the query parameter limit
Limits == {0, 1, 100}

\* schemas.GPSIn (main.GPSIn): the body validates
GPSIn(data) ==
    /\ data.lat >= -90 /\ data.lat <= 90
    /\ data.lon >= -180 /\ data.lon <= 180

\* main._parse_ts: the device's time in UTC; the server's clock reading t
\* when the text is missing, empty or not ISO 8601
_parse_ts(ts, t) ==
    IF ts = None THEN t
    ELSE IF ~Val(ts).iso THEN t
    ELSE IF Val(ts).z THEN Val(ts).clock
    ELSE Val(ts).clock - Val(ts).offset

\* the GPSPoint receive_gps adds: routes.py stamps it with the server's
\* clock, main.py with the device's timestamp
GPSPoint(app, rows, data, t) ==
    [id |-> NextId(rows), device_id |-> data.device_id, lat |-> data.lat,
     lon |-> data.lon, hdop |-> data.hdop,
     ts |-> IF app = "main" THEN _parse_ts(data.ts, t) ELSE t,
     created_at |-> t]

\* ORDER BY ts DESC, id DESC: p comes before q
Newer(p, q) == p.ts > q.ts \/ (p.ts = q.ts /\ p.id > q.id)

RECURSIVE OrderDesc(_, _)
OrderDesc(rows, S) ==
    IF S = {} THEN <<>>
    ELSE LET i == CHOOSE i \in S : \A j \in S \ {i} : Newer(rows[i], rows[j])
         IN  <<rows[i]>> \o OrderDesc(rows, S \ {i})

\* db.query(GPSPoint).filter(device_id == ...).order_by(ts.desc(), id.desc())
QueryDevice(rows, device_id) ==
    OrderDesc(rows, {i \in 1..Len(rows) : rows[i].device_id = device_id})

\* .limit(limit).all()
Limit(rows, limit) ==
    SubSeq(rows, 1, IF limit < Len(rows) THEN limit ELSE Len(rows))

\* reversed(rows)
Reversed(rows) == [i \in 1..Len(rows) |-> rows[Len(rows) + 1 - i]]

\* the answer of an endpoint
Answer(status, body) == [status |-> status, body |-> body]

\* variant: the point stored last is taken for the latest one
latest_StoredLast(rows, device_id) ==
    LET S == {i \in 1..Len(rows) : rows[i].device_id = device_id}
    IN  IF S = {} THEN Answer(404, [detail |-> "No data for device_id"])
        ELSE Answer(200, rows[CHOOSE i \in S : \A j \in S : j <= i])

\* the handler latest: .first(), 404 when there is no row
latest(rows, device_id) ==
    LET found == QueryDevice(rows, device_id)
    IN  IF found = <<>> THEN Answer(404, [detail |-> "No data for device_id"])
        ELSE Answer(200, found[1])

\* the handler track
track(rows, device_id, limit) ==
    IF limit < 1 \/ limit > 1000 THEN Answer(422, [detail |-> "limit"])
    ELSE Answer(200, Limit(QueryDevice(rows, device_id), limit))

\* one feature of the collection geojson returns
Feature(r) ==
    [properties |-> [id |-> r.id, device_id |-> r.device_id, hdop |-> r.hdop,
                     ts |-> r.ts],
     coordinates |-> <<r.lon, r.lat>>]

\* the handler geojson: the oldest point first
geojson(rows, device_id, limit) ==
    IF limit < 1 \/ limit > 2000 THEN Answer(422, [detail |-> "limit"])
    ELSE LET found == Reversed(Limit(QueryDevice(rows, device_id), limit))
         IN  Answer(200, [type |-> "FeatureCollection",
                          features |-> [i \in 1..Len(found) |-> Feature(found[i])]])

\* the handlers root, health, map_page and voice_page of an application, and
\* the 404 of a path it has no route for
static(app, path, t) ==
    IF path \notin StaticRoutes(app) THEN Answer(404, [detail |-> "Not Found"])
    ELSE IF path = "/" THEN Answer(200, [message |-> "Blind Stick Server is running"])
    ELSE IF path = "/health"
         THEN IF app = "main" THEN Answer(200, [ok |-> TRUE, time |-> t])
              ELSE Answer(200, [status |-> "ok", time |-> t])
    ELSE Answer(200, [html |-> path])

\* the answer as the client of an endpoint receives it
Replied(op, app, answer) ==
    [op |-> op, app |-> app, status |-> answer.status, body |-> answer.body]

\* variant: receive_gps recreates the tables of the database before it adds
\* the point
ReceiveGps_Recreates(app) ==
    \E data \in GpsInputs, t \in now..MaxTime :
        /\ GPSIn(data)
        /\ ~Unauthorized(data.x_api_key)
        /\ Len(points) < MaxPoints
        /\ now' = t
        /\ records' = <<>>
        /\ points' = <<GPSPoint(app, <<>>, data, t)>>
        /\ reply' = Replied("receive_gps", app, Answer(201, [ok |-> TRUE, id |-> 1]))
        /\ UNCHANGED <<req, files, environ, probe>>

\* POST /receive_gps: 422 for a body that does not validate, 401 for a
\* wrong key, else the point is added and committed
ReceiveGps(app) ==
    \E data \in GpsInputs, t \in now..MaxTime, out \in StoreAnswers :
        IF ~GPSIn(data)
        THEN /\ reply' = Replied("receive_gps", app, Answer(422, [detail |-> "body"]))
             /\ UNCHANGED <<req, records, files, now, environ, probe, points>>
        ELSE IF Unauthorized(data.x_api_key)
        THEN /\ reply' = Replied("receive_gps", app, Answer(401, [detail |-> "Unauthorized"]))
             /\ UNCHANGED <<req, records, files, now, environ, probe, points>>
        ELSE /\ Len(points) < MaxPoints
             /\ now' = t
             /\ points' = IF out = "commit_raises" THEN points
                          ELSE Append(points, GPSPoint(app, points, data, t))
             /\ reply' = Replied("receive_gps", app,
                            IF out = "ok"
                            THEN Answer(201, [ok |-> TRUE, id |-> NextId(points)])
                            ELSE Answer(500, [detail |-> "Internal Server Error"]))
             /\ UNCHANGED <<req, records, files, environ, probe>>

\* GET /latest, the same handler in both applications
Latest ==
    /\ \E device_id \in Devices :
        reply' = Replied("latest", "both", latest(points, device_id))
    /\ UNCHANGED <<req, records, files, now, environ, probe, points>>

\* GET /track, the same handler in both applications
Track ==
    /\ \E device_id \in Devices, limit \in Limits :
        reply' = Replied("track", "both", track(points, device_id, limit))
    /\ UNCHANGED <<req, records, files, now, environ, probe, points>>

\* GET /geojson, the same handler in both applications
Geojson ==
    /\ \E device_id \in Devices, limit \in Limits :
        reply' = Replied("geojson", "both", geojson(points, device_id, limit))
    /\ UNCHANGED <<req, records, files, now, environ, probe, points>>

\* GET /, /health, /map, /voice
Get(app) ==
    /\ \E path \in StaticPaths, t \in now..MaxTime :
        /\ reply' = Replied(path, app, static(app, path, t))
        /\ now' = IF path = "/health" /\ path \in StaticRoutes(app) THEN t ELSE now
    /\ UNCHANGED <<req, records, files, environ, probe, points>>

GpsStep ==
    \/ \E app \in Apps : ReceiveGps(app)
    \/ Latest
    \/ Track
    \/ Geojson
    \/ \E app \in Apps : Get(app)

\* the GPS endpoints and the pages in use, no navigate request about
InitGps == ServerAtRest /\ probe = [op |-> "none"]

SpecGps == InitGps /\ [][GpsStep]_vars

\* the GPS endpoints and the pages in use once the store holds a record
GpsStepAfterRecord == records # <<>> /\ GpsStep

\* one navigate request, and the traffic that follows its record
NextServer == ServerStep \/ GpsStepAfterRecord

SpecServer == Init /\ [][NextServer]_vars

\* ------------------------------------------------------------------------
\* Vocabulary of the properties
\* ------------------------------------------------------------------------
\* the stage was invoked by the request
Invoked(q, stage) == \E i \in 1..Len(q.log) : q.log[i][1] = stage

\* the stage was invoked and ended with the result
Ended(q, stage, result) == \E i \in 1..Len(q.log) : q.log[i] = <<stage, result>>

\* the six stages of the pipeline, in the order of the design
Stages == <<"transcribe", "translate", "extract", "geocode", "directions", "store">>

IsPipelineEntry(e) == e[1] # "save_audio"

\* the stages the request invoked, in the order it invoked them
PipelineLog(q) == SelectSeq(q.log, IsPipelineEntry)

\* results with which a stage fails
FailureResults == {"none", "raise", "raise_after_commit"}

\* navigate returned a NavigationResponse
Responded(q) == q.response # None

Resp(q) == Val(q.response)

\* the rows of the store a request inserted
RowsOf(q) == {i \in 1..Len(records) : records[i].id \in q.rec_ids}

\* ------------------------------------------------------------------------
\* C1.  Every response navigate returns: success = false implies a non-empty
\* error and no steps; success = true implies no error and, whenever the
\* Directions Gateway returned a route (also one with an empty step list),
\* at least one step.
\* Violated: a route whose leg has no steps is answered with success = true
\* and steps = [].
\* ------------------------------------------------------------------------
C1_OutcomeInvariant ==
    \A r \in Requests :
        Responded(req[r]) =>
            /\ ~Resp(req[r]).success =>
                    /\ ~Falsy(Resp(req[r]).error)
                    /\ Len(Resp(req[r]).steps) = 0
            /\ Resp(req[r]).success =>
                    /\ Falsy(Resp(req[r]).error)
                    /\ req[r].gw_steps # None => Len(Resp(req[r]).steps) > 0

\* ------------------------------------------------------------------------
\* C2.  When the Transcription Gateway returns no transcript, the request
\* ends with success = false and request_id = 0, inserts no row, and invokes
\* none of translation, extraction, geocoding, directions, persistence.
\* ------------------------------------------------------------------------
C2_NoTranscript(q) ==
    Invoked(q, "transcribe") /\ (q.transcript = None \/ q.transcript = Some(<<>>))

C2_TranscriptionFailure ==
    \A r \in Requests :
        C2_NoTranscript(req[r]) =>
            /\ req[r].pc = "done"
            /\ Responded(req[r])
            /\ ~Resp(req[r]).success
            /\ Resp(req[r]).request_id = 0
            /\ req[r].rec_ids = {}
            /\ \A i \in 1..Len(records) : ~Falsy(records[i].transcript)
            /\ \A s \in {"translate", "extract", "geocode", "directions", "store"} :
                    ~Invoked(req[r], s)

\* a request failed in transcription while another one has stored its row
C2_Witness ==
    \E r \in Requests :
        /\ C2_NoTranscript(req[r])
        /\ req[r].pc = "done"
        /\ records # <<>>

\* ------------------------------------------------------------------------
\* C3.  When the Geocoding Gateway finds nothing for the extracted place P.
\* As claimed: success = false, request_id = 0, the error contains P, and
\* destination_place, destination_lat, destination_lng are all absent.
\* Violated: destination_place carries P.
\* ------------------------------------------------------------------------
C3_GeocodeNone(q) == Invoked(q, "geocode") /\ q.geocode_result = None

C3_AsClaimed ==
    \A r \in Requests :
        C3_GeocodeNone(req[r]) =>
            /\ Responded(req[r])
            /\ ~Resp(req[r]).success
            /\ Resp(req[r]).request_id = 0
            /\ Resp(req[r]).error # None
            /\ Contains(Val(Resp(req[r]).error), Val(req[r].place_name))
            /\ Resp(req[r]).destination_place = None
            /\ Resp(req[r]).destination_lat = None
            /\ Resp(req[r]).destination_lng = None

\* C3 as amended: success = false, request_id = 0, the error contains P,
\* destination_lat and destination_lng are absent, and destination_place is
\* the attempted place text P.
C3_GeocodeFailure ==
    \A r \in Requests :
        C3_GeocodeNone(req[r]) =>
            /\ Responded(req[r])
            /\ ~Resp(req[r]).success
            /\ Resp(req[r]).request_id = 0
            /\ Resp(req[r]).error # None
            /\ Contains(Val(Resp(req[r]).error), Val(req[r].place_name))
            /\ Val(req[r].place_name) # <<>>
            /\ Resp(req[r]).destination_place = req[r].place_name
            /\ Resp(req[r]).destination_lat = None
            /\ Resp(req[r]).destination_lng = None

C3_Witness ==
    \E r \in Requests :
        /\ C3_GeocodeNone(req[r])
        /\ req[r].pc = "done"
        /\ req[r].place_name = Some(<<"x">>)

\* ------------------------------------------------------------------------
\* C4.  When the Directions Gateway returns a route with N steps, a success
\* response holds exactly N steps, in the same order, the i-th with the
\* instruction, distance, duration and maneuver of the i-th step of the route.
\* ------------------------------------------------------------------------
C4_StepsPreserved ==
    \A r \in Requests :
        (Responded(req[r]) /\ Resp(req[r]).success) =>
            /\ req[r].gw_steps # None
            /\ Len(Resp(req[r]).steps) = Len(Val(req[r].gw_steps))
            /\ \A i \in 1..Len(Val(req[r].gw_steps)) :
                LET sent == Val(req[r].gw_steps)[i]
                    got == Resp(req[r]).steps[i]
                IN  /\ got.instruction = sent.html_instructions
                    /\ got.distance = sent.distance
                    /\ got.duration = sent.duration
                    /\ got.maneuver = sent.maneuver

\* a success response with two different steps
C4_Witness ==
    \E r \in Requests :
        /\ Responded(req[r])
        /\ Resp(req[r]).success
        /\ Len(Resp(req[r]).steps) = 2
        /\ Resp(req[r]).steps[1] # Resp(req[r]).steps[2]

\* ------------------------------------------------------------------------
\* C5.  Within one request the stages are invoked in the order
\* transcription, translation, extraction, geocoding, directions,
\* persistence, each at most once and only after every earlier stage has
\* succeeded; after the first fatal failure nothing more is invoked and the
\* request ends in a failure response.
\* Violated: persistence that raises ends the request without a response.
\* ------------------------------------------------------------------------
C5_OrderOnly ==
    \A r \in Requests :
        LET L == PipelineLog(req[r])
        IN  \A i \in 1..Len(L) :
                /\ L[i][1] = Stages[i]
                /\ i < Len(L) => L[i][2] \notin FailureResults

C5_StageOrder ==
    /\ C5_OrderOnly
    /\ \A r \in Requests :
        LET L == PipelineLog(req[r])
        IN  (L # <<>> /\ L[Len(L)][2] \in FailureResults) =>
                /\ req[r].pc = "done"
                /\ Responded(req[r])
                /\ ~Resp(req[r]).success

\* ------------------------------------------------------------------------
\* C6.  Every fatal stage failure is answered with success = false and
\* request_id = 0 and with the fields computed before the failing stage:
\* none after transcription; transcript and language after extraction; also
\* the extracted place after geocoding; also the geocoded coordinates (and
\* the geocoder's address) after directions.
\* ------------------------------------------------------------------------
C6_FailedStage(q, stage) == Ended(q, stage, "none")

C6_FailureCarriesComputedFields ==
    \A r \in Requests :
        \A stage \in {"transcribe", "extract", "geocode", "directions"} :
            C6_FailedStage(req[r], stage) =>
                /\ Responded(req[r])
                /\ ~Resp(req[r]).success
                /\ Resp(req[r]).request_id = 0
                /\ IF stage = "transcribe"
                   THEN /\ Resp(req[r]).transcript = None
                        /\ Resp(req[r]).detected_language = None
                   ELSE /\ Resp(req[r]).transcript # None
                        /\ Resp(req[r]).transcript = req[r].transcript
                        /\ Resp(req[r]).detected_language = req[r].source_lang
                /\ IF stage \in {"transcribe", "extract"}
                   THEN /\ Resp(req[r]).destination_place = None
                        /\ Resp(req[r]).destination_lat = None
                        /\ Resp(req[r]).destination_lng = None
                   ELSE IF stage = "geocode"
                   THEN /\ Resp(req[r]).destination_place # None
                        /\ Resp(req[r]).destination_place = req[r].place_name
                        /\ Resp(req[r]).destination_lat = None
                        /\ Resp(req[r]).destination_lng = None
                   ELSE /\ Resp(req[r]).destination_place =
                                Some(Val(req[r].geocode_result).formatted_address)
                        /\ Resp(req[r]).destination_lat = Some(Val(req[r].geocode_result).lat)
                        /\ Resp(req[r]).destination_lng = Some(Val(req[r].geocode_result).lng)

\* the four fatal failures have all been answered, each by some request,
\* here: extraction by one request and directions by another
C6_Witness ==
    \E r1, r2 \in Requests :
        /\ C6_FailedStage(req[r1], "extract")
        /\ req[r1].source_lang = Some(LANG_BN)
        /\ C6_FailedStage(req[r2], "directions")

\* ------------------------------------------------------------------------
\* C7.  The number of rows equals the number of requests that obtained a
\* route: a request inserts exactly one row when, and only when,
\* transcription, extraction, geocoding and directions all succeeded, and a
\* request that ends in failure inserts none.
\* Violated: the route is there and db.commit() raises, so no row is written.
\* ------------------------------------------------------------------------
C7_ObtainedRoute(q) ==
    /\ Ended(q, "transcribe", "ok")
    /\ Ended(q, "extract", "ok")
    /\ Ended(q, "geocode", "ok")
    /\ Ended(q, "directions", "ok")

C7_AsClaimed ==
    /\ \A r \in Requests :
        req[r].pc = "done" =>
            Cardinality(RowsOf(req[r])) = IF C7_ObtainedRoute(req[r]) THEN 1 ELSE 0
    /\ (\A r \in Requests : req[r].pc = "done") =>
            Len(records) = Cardinality({r \in Requests : C7_ObtainedRoute(req[r])})

\* the write of the request's row was committed
C7_Committed(q) == Ended(q, "store", "ok") \/ Ended(q, "store", "raise_after_commit")

\* C7 as amended: the number of rows equals the number of requests whose
\* write the store committed; a request inserts exactly one row when, and
\* only when, the four stages succeeded and the store committed its write;
\* a request that returns a failure response, or whose commit raised,
\* inserts none; no row is written before the route is there.
C7_RecordPerCommittedRoute ==
    /\ \A r \in Requests :
        /\ Cardinality(RowsOf(req[r])) =
                IF C7_ObtainedRoute(req[r]) /\ C7_Committed(req[r]) THEN 1 ELSE 0
        /\ (Responded(req[r]) /\ ~Resp(req[r]).success) => RowsOf(req[r]) = {}
        /\ Ended(req[r], "store", "raise") => RowsOf(req[r]) = {}
        /\ Invoked(req[r], "store") => C7_ObtainedRoute(req[r])
    /\ Len(records) = Cardinality({r \in Requests : C7_Committed(req[r])})
    /\ \A i \in 1..Len(records) : \E r \in Requests : i \in RowsOf(req[r])

\* all requests are over: one stored its row, the other failed for want of
\* a route
C7_Witness ==
    /\ \A r \in Requests : req[r].pc = "done"
    /\ Len(records) = 1
    /\ \E r \in Requests : Ended(req[r], "directions", "none")
    /\ \E r \in Requests : Ended(req[r], "store", "ok")

\* ------------------------------------------------------------------------
\* C8.  A success response carries a positive request_id, the id of the row
\* that same request inserted; the ids of the rows are pairwise distinct and
\* increase in the order of insertion, also when requests overlap.
\* ------------------------------------------------------------------------
C8_RequestIdIsRecordId ==
    /\ \A r \in Requests :
        (Responded(req[r]) /\ Resp(req[r]).success) =>
            /\ Resp(req[r]).request_id > 0
            /\ req[r].rec_ids = {Resp(req[r]).request_id}
            /\ \E i \in 1..Len(records) :
                /\ records[i].id = Resp(req[r]).request_id
                /\ records[i].transcript = req[r].transcript
                /\ records[i].audio_path = req[r].audio_path
                /\ records[i].origin_lat = req[r].lat
    /\ \A i, j \in 1..Len(records) : i < j => records[i].id < records[j].id
    /\ \A r1, r2 \in Requests : r1 # r2 => req[r1].rec_ids \cap req[r2].rec_ids = {}

\* two requests that overlapped (the later one to arrive stored first) have
\* both been answered with success
C8_Witness ==
    /\ \A r \in Requests : Responded(req[r]) /\ Resp(req[r]).success
    /\ Resp(req[1]).request_id = 2
    /\ Resp(req[2]).request_id = 1

\* ------------------------------------------------------------------------
\* C9.  No fatal condition leaves navigate as an unhandled fault: also when
\* saving the audio or writing the row raises, the caller gets a
\* NavigationResponse with success = false.
\* Violated: save_audio_file and store_navigation_request are called outside
\* any try block; what they raise leaves the handler.
\* ------------------------------------------------------------------------
C9_FatalCondition(q) == \E i \in 1..Len(q.log) : q.log[i][2] \in FailureResults

C9_NoUnhandledFault ==
    \A r \in Requests :
        (req[r].pc = "done" /\ C9_FatalCondition(req[r])) =>
            /\ req[r].http = 200
            /\ Responded(req[r])
            /\ ~Resp(req[r]).success

\* the same for the persistence step alone
C9_NoUnhandledStoreFault ==
    \A r \in Requests :
        (Ended(req[r], "store", "raise") \/ Ended(req[r], "store", "raise_after_commit")) =>
            /\ Responded(req[r])
            /\ ~Resp(req[r]).success

\* ------------------------------------------------------------------------
\* C10.  Translation never ends the pipeline.  When the Translation Gateway
\* is unavailable or raises, extraction runs on the original transcript and
\* the language is recorded as unknown: the response and the stored row
\* carry no language even if transcription had detected one.
\* ------------------------------------------------------------------------
C10_TranslationNeverTerminates ==
    \A r \in Requests :
        /\ Invoked(req[r], "translate") =>
                /\ req[r].pc = "extract" \/ Invoked(req[r], "extract")
                /\ ~Ended(req[r], "translate", "none")
                /\ ~Ended(req[r], "translate", "raise")
        /\ Ended(req[r], "translate", "degraded") =>
                /\ req[r].translated_text = req[r].transcript
                /\ req[r].source_lang = None
                /\ Invoked(req[r], "extract") =>
                        req[r].place_name = extract_place_name(req[r].transcript)
                /\ Responded(req[r]) => Resp(req[r]).detected_language = None
                /\ \A i \in RowsOf(req[r]) :
                        /\ records[i].detected_language = None
                        /\ records[i].translated_text = req[r].transcript

\* transcription detected "bn", translation failed, the request succeeded
C10_Witness ==
    \E r \in Requests :
        /\ Ended(req[r], "translate", "degraded")
        /\ req[r].detected_lang = Some(LANG_BN)
        /\ Responded(req[r])
        /\ Resp(req[r]).success
        /\ RowsOf(req[r]) # {}

\* ------------------------------------------------------------------------
\* C11.  When the source language given to translate_to_english, or
\* detected by it, is English, it returns the input text unchanged together
\* with that language code and makes no translate call; applied again to
\* what it returned it returns the same.
\* ------------------------------------------------------------------------
\* the codes of English
C11_EnglishCodes == {Some(LANG_EN), Some(LANG_EN_US), Some(<<"E", "N">>)}

\* an English source language was given
C11_GivenEnglish == probe.source_lang \in C11_EnglishCodes

\* no language was given and detect_language reported English
C11_DetectedEnglish ==
    /\ probe.source_lang \in {None, Some(<<>>)}
    /\ "detect_language" \in {probe.calls[i] : i \in 1..Len(probe.calls)}
    /\ probe.ans.fault # "detect"
    /\ probe.ans.language \in C11_EnglishCodes

C11_SourceLanguage ==
    IF C11_GivenEnglish THEN probe.source_lang ELSE probe.ans.language

C11_NoTranslateCall ==
    \A i \in 1..Len(probe.calls) : probe.calls[i] # "translate"

\* the translate client could be built
C11_ClientBuilt == probe.ans.available /\ probe.ans.fault # "client"

\* C11 as claimed: the language code comes back whenever the source is
\* English
C11_AsClaimed ==
    (probe.op = "translate" /\ probe.done
        /\ (C11_GivenEnglish \/ C11_DetectedEnglish))
    => /\ probe.result = <<Some(probe.text), C11_SourceLanguage>>
       /\ C11_NoTranslateCall
       /\ probe.again = probe.result

\* C11, amended: with an English source the text comes back unchanged, no
\* translate call is made and a second application returns the same; the
\* language code comes back when the translate client could be built, and
\* is absent when it could not.
C11_EnglishIsIdentity ==
    (probe.op = "translate" /\ probe.done
        /\ (C11_GivenEnglish \/ C11_DetectedEnglish))
    => /\ probe.result[1] = Some(probe.text)
       /\ probe.result[2] = (IF C11_ClientBuilt THEN C11_SourceLanguage ELSE None)
       /\ C11_NoTranslateCall
       /\ probe.again = probe.result

\* an English code other than "en" was given while the client would have
\* translated the text
C11_Witness ==
    /\ probe.op = "translate" /\ probe.done
    /\ probe.source_lang = Some(LANG_EN_US)
    /\ C11_ClientBuilt
    /\ probe.ans.fault = "none"
    /\ probe.ans.translatedText = Some(TXT_GO_TO_X)
    /\ probe.text = TXT_B
    /\ probe.result = <<Some(TXT_B), Some(LANG_EN_US)>>

\* ------------------------------------------------------------------------
\* C12.  While GOOGLE_MAPS_API_KEY is not configured (unset or empty), a
\* navigate request that presented the matching key has returned as soon as
\* it was received: success = false, request_id = 0, a non-empty error, no
\* audio saved, no gateway invoked, no record persisted.
\* ------------------------------------------------------------------------
C12_NotConfigured == environ.GOOGLE_MAPS_API_KEY \in {None, Some(<<>>)}

C12_Authenticated(q) == q.pc # "idle" /\ q.x_api_key = Some(API_KEY)

C12_ConfigurationError ==
    C12_NotConfigured =>
        /\ \A r \in Requests :
              C12_Authenticated(req[r]) =>
                /\ req[r].pc = "done"
                /\ req[r].http = 200
                /\ Responded(req[r])
                /\ Resp(req[r]).success = FALSE
                /\ Resp(req[r]).request_id = 0
                /\ Resp(req[r]).error # None
                /\ Len(Val(Resp(req[r]).error)) > 0
                /\ req[r].log = <<>>
                /\ req[r].audio_path = None
                /\ req[r].rec_ids = {}
        /\ Len(records) = 0
        /\ DOMAIN files = {}

\* an authenticated request was answered while the credential was the
\* empty string
C12_Witness ==
    /\ environ.GOOGLE_MAPS_API_KEY = Some(<<>>)
    /\ \E r \in Requests :
          /\ C12_Authenticated(req[r])
          /\ req[r].pc = "done"
          /\ Responded(req[r])

\* ------------------------------------------------------------------------
\* C13.  A navigate request whose X-API-Key header is absent or differs
\* from the configured key is rejected with 401 before any work: no audio
\* saved, no gateway invoked, no record persisted, no response body; and
\* every file and every record of the server comes from a request that
\* presented the matching key.
\* ------------------------------------------------------------------------
C13_KeyMatches(q) == q.x_api_key # None /\ Val(q.x_api_key) = API_KEY

C13_RejectedBeforeWork ==
    /\ \A r \in Requests :
          (req[r].pc # "idle" /\ ~C13_KeyMatches(req[r])) =>
            /\ req[r].pc = "done"
            /\ req[r].http = 401
            /\ req[r].response = None
            /\ req[r].log = <<>>
            /\ req[r].audio_path = None
            /\ req[r].transcript = None
            /\ req[r].rec_ids = {}
    /\ \A p \in DOMAIN files :
          \E r \in Requests : C13_KeyMatches(req[r]) /\ req[r].audio_path = Some(p)
    /\ \A i \in 1..Len(records) :
          \E r \in Requests : C13_KeyMatches(req[r]) /\ records[i].id \in req[r].rec_ids

\* a request with a wrong key and a request without a key were both turned
\* away
C13_Witness ==
    \E r1, r2 \in Requests :
        /\ req[r1].pc = "done" /\ req[r1].x_api_key = None /\ req[r1].http = 401
        /\ req[r2].pc = "done" /\ req[r2].x_api_key \notin {None, Some(API_KEY)}
        /\ req[r2].http = 401

\* ------------------------------------------------------------------------
\* C14.  For each of the four gateways, an exception raised inside the
\* gateway call (building the client, or a remote call) does not reach the
\* caller: transcription returns (None, None), geocoding and directions
\* return None, translation returns the original text with no language.
\* ------------------------------------------------------------------------
\* a call of the gateway function raised
C14_FaultRaised ==
    /\ probe.raises # "none"
    /\ CallMade(probe.gateway, probe.args, probe.ans, probe.raises)

C14_FaultContained ==
    (probe.op = "gateway" /\ probe.done /\ C14_FaultRaised) =>
        /\ ~probe.outcome.raised
        /\ probe.gateway = "transcribe" => probe.outcome.value = <<None, None>>
        /\ probe.gateway = "translate" =>
              probe.outcome.value = <<Some(probe.args.text), None>>
        /\ probe.gateway \in {"geocode", "directions"} => probe.outcome.value = None

\* building the Google Maps client raised inside geocode_place
C14_Witness ==
    /\ probe.op = "gateway" /\ probe.done
    /\ probe.gateway = "geocode"
    /\ probe.raises = "client"
    /\ C14_FaultRaised
    /\ ~probe.outcome.raised

\* ------------------------------------------------------------------------
\* C15.  Every accepted navigate request eventually returns, even if a
\* gateway call never answers: no request stays inside a stage forever.
\* ------------------------------------------------------------------------
\* Stated for the accepted requests that have reached the geocoding stage:
\* each of them eventually returns.
C15_EveryRequestReturns ==
    \A r \in Requests : (req[r].pc = "geocode") ~> (req[r].pc = "done")

\* ------------------------------------------------------------------------
\* Vocabulary of the properties of extract_place_name
\* ------------------------------------------------------------------------
Punctuation == {"?", ".", "!", ","}

\* extract_place_name was applied to a text (not to None)
Extracted == probe.op = "extract" /\ probe.done /\ probe.text # None

\* s has whitespace neither at its start nor at its end
NoEdgeSpace(s) == Len(s) = 0 \/ (~IsSpace(s[1]) /\ ~IsSpace(s[Len(s)]))

\* t is s without the whitespace around it
IsTrimOf(t, s) ==
    /\ NoEdgeSpace(t)
    /\ \E a \in 0..Len(s) :
          /\ a + Len(t) <= Len(s)
          /\ SubSeq(s, a + 1, a + Len(t)) = t
          /\ \A i \in (1..a) \cup ((a + Len(t) + 1)..Len(s)) : IsSpace(s[i])

\* t is s without the run of punctuation and whitespace at its end and
\* without the whitespace at its start
IsPlaceOf(t, s) ==
    /\ NoEdgeSpace(t)
    /\ Len(t) = 0 \/ t[Len(t)] \notin Punctuation
    /\ \E a \in 0..Len(s) :
          /\ a + Len(t) <= Len(s)
          /\ SubSeq(s, a + 1, a + Len(t)) = t
          /\ \A i \in 1..a : IsSpace(s[i])
          /\ \A i \in (a + Len(t) + 1)..Len(s) : IsSpace(s[i]) \/ s[i] \in Punctuation

\* ------------------------------------------------------------------------
\* C16.  For every input "take me to X", in any letter case, with any
\* whitespace around it and any trailing run of . ? ! , (also when
\* whitespace separates the punctuation from X), extract_place_name returns
\* X without the trailing punctuation and without leading or trailing
\* whitespace.  X is compared without regard to letter case.
\* ------------------------------------------------------------------------
\* the text is "take me to", whitespace, and a remainder that names a place
C16_TakeMeToX ==
    /\ Extracted
    /\ Lower(probe.parts.phrase) = patterns[1][1]
    /\ Len(probe.parts.gap) > 0
    /\ Len(probe.parts.inner) = 0 /\ Len(probe.parts.gap2) = 0
    /\ \E i \in 1..Len(probe.parts.body) :
          ~IsSpace(probe.parts.body[i]) /\ probe.parts.body[i] \notin Punctuation

C16_TakeMeTo ==
    C16_TakeMeToX =>
        /\ probe.result # None
        /\ NoEdgeSpace(Val(probe.result))
        /\ IsPlaceOf(Val(probe.result), Lower(probe.parts.body))

\* ------------------------------------------------------------------------
\* C17.  extract_place_name tries its patterns in list order against the
\* whole text; the first pattern of the list that matches anywhere gives
\* the result, whatever the place of its phrase in the text, and a later
\* pattern is used only when no earlier one matches anywhere.
\* ------------------------------------------------------------------------
\* the text the patterns are matched against
C17_Subject == Strip(Lower(Val(probe.text)))

\* the phrase w stands at i of s
C17_PhraseAt(s, i, w) ==
    /\ i + Len(w) - 1 <= Len(s)
    /\ \A n \in 1..Len(w) : s[i + n - 1] = w[n]

\* behind the phrase w at i whitespace runs up to g - 1, and a character
\* other than a line break stands at g
C17_GroupAt(s, i, w, g) ==
    /\ g > i + Len(w) /\ g <= Len(s)
    /\ \A n \in (i + Len(w))..(g - 1) : IsSpace(s[n])
    /\ s[g] # "\n"

\* the alternative a of pattern k matches at i
C17_AltAt(s, k, a, i) ==
    /\ C17_PhraseAt(s, i, patterns[k][a])
    /\ \E g \in (i + Len(patterns[k][a]) + 1)..Len(s) :
          C17_GroupAt(s, i, patterns[k][a], g)

C17_PatternAt(s, k, i) == \E a \in 1..Len(patterns[k]) : C17_AltAt(s, k, a, i)

\* pattern k matches somewhere in s
C17_Matches(s, k) == \E i \in 1..Len(s) : C17_PatternAt(s, k, i)

\* The remainder pattern k captures in s: at the leftmost place where the
\* pattern matches, behind the first alternative that matches there, it
\* starts after the longest run of whitespace that leaves it a character
\* and runs to the end of the line.
C17_Captured(s, k) ==
    LET i == CHOOSE i \in 1..Len(s) :
                C17_PatternAt(s, k, i) /\ \A j \in 1..(i - 1) : ~C17_PatternAt(s, k, j)
        a == CHOOSE a \in 1..Len(patterns[k]) :
                C17_AltAt(s, k, a, i) /\ \A c \in 1..(a - 1) : ~C17_AltAt(s, k, c, i)
        w == patterns[k][a]
        g == CHOOSE g \in 1..Len(s) :
                /\ C17_GroupAt(s, i, w, g)
                /\ \A h \in (g + 1)..Len(s) : ~C17_GroupAt(s, i, w, h)
        e == CHOOSE e \in g..Len(s) :
                /\ \A n \in g..e : s[n] # "\n"
                /\ e = Len(s) \/ s[e + 1] = "\n"
    IN  SubSeq(s, g, e)

\* t is u without the whitespace around it and then without the
\* punctuation at its end
C17_Cleaned(t, u) ==
    /\ Len(t) = 0 \/ t[Len(t)] \notin Punctuation
    /\ \E a \in 0..Len(u) : \E b \in a..Len(u) :
          /\ IsTrimOf(SubSeq(u, a + 1, b), u)
          /\ Len(t) <= b - a
          /\ SubSeq(u, a + 1, a + Len(t)) = t
          /\ \A n \in (a + Len(t) + 1)..b : u[n] \in Punctuation

C17_FirstPatternWins ==
    (Extracted /\ Len(Val(probe.text)) > 0) =>
        \A k \in 1..Len(patterns) :
            (C17_Matches(C17_Subject, k)
                /\ \A j \in 1..(k - 1) : ~C17_Matches(C17_Subject, j))
            => /\ probe.result # None
               /\ C17_Cleaned(Val(probe.result), C17_Captured(C17_Subject, k))

\* "how to reach where is x": the phrase of the second pattern stands first
\* in the text and the first pattern gives the result
C17_Witness ==
    /\ Extracted
    /\ probe.parts.phrase = patterns[2][2]
    /\ probe.parts.inner = patterns[1][7]
    /\ Len(probe.parts.gap) > 0 /\ Len(probe.parts.gap2) > 0
    /\ probe.parts.body = <<"x">>
    /\ C17_Matches(C17_Subject, 2)
    /\ probe.result = Some(<<"x">>)

\* ------------------------------------------------------------------------
\* C18.  For every non-empty text in which no phrase of the patterns
\* occurs, extract_place_name returns the text without the whitespace
\* around it and otherwise unchanged: same characters, same letter case.
\* ------------------------------------------------------------------------
\* some phrase of some pattern occurs in s
C18_PhraseOccurs(s) ==
    \E k \in 1..Len(patterns) : \E a \in 1..Len(patterns[k]) : \E i \in 1..Len(s) :
        C17_PhraseAt(s, i, patterns[k][a])

C18_NoPattern ==
    /\ Extracted
    /\ Len(Val(probe.text)) > 0
    /\ ~C18_PhraseOccurs(Lower(Val(probe.text)))

C18_FallbackIsTrimmedInput ==
    C18_NoPattern =>
        /\ probe.result # None
        /\ IsTrimOf(Val(probe.result), Val(probe.text))

\* a text with a capital letter and whitespace around it
C18_Witness ==
    /\ C18_NoPattern
    /\ probe.parts.lead = <<" ">>
    /\ probe.parts.body = <<"Q", "x", " ">>
    /\ probe.result = Some(<<"Q", "x">>)

\* ------------------------------------------------------------------------
\* C19.  extract_place_name returns None exactly when its input is None or
\* empty; for every other input, a text of whitespace only and a phrase
\* followed by punctuation only included, it returns a non-empty string.
\* ------------------------------------------------------------------------
C19_EmptyInput == probe.text = None \/ probe.text = Some(<<>>)

C19_NoneOnlyForEmpty ==
    (probe.op = "extract" /\ probe.done) =>
        /\ (probe.result = None) <=> C19_EmptyInput
        /\ ~C19_EmptyInput => Len(Val(probe.result)) > 0

\* ------------------------------------------------------------------------
\* C20.  For a transcript in a language other than English whose
\* translation succeeds, the place is extracted from the translated text,
\* the transcript of the response is the transcript as transcribed, and
\* detected_language, in the response and in the record, is the language
\* code the transcription reported.
\* ------------------------------------------------------------------------
\* the transcription reported a language other than English and the
\* translation went through
C20_TranslatedRequest(q) ==
    /\ q.detected_lang \notin ({None, Some(<<>>)} \cup C11_EnglishCodes)
    /\ Ended(q, "translate", "ok")

C20_TranslatedTextIsUsed ==
    \A r \in Requests :
        C20_TranslatedRequest(req[r]) =>
            /\ Invoked(req[r], "extract") =>
                  req[r].place_name = extract_place_name(req[r].translated_text)
            /\ Responded(req[r]) =>
                  /\ Resp(req[r]).transcript = req[r].transcript
                  /\ Resp(req[r]).detected_language = req[r].detected_lang
            /\ \A i \in RowsOf(req[r]) :
                  /\ records[i].transcript = req[r].transcript
                  /\ records[i].translated_text = req[r].translated_text
                  /\ records[i].detected_language = req[r].detected_lang

\* a transcript reported as "bn" was translated to "Go to X.", routed,
\* recorded and answered
C20_Witness ==
    \E r \in Requests :
        /\ C20_TranslatedRequest(req[r])
        /\ req[r].transcript = Some(TXT_B)
        /\ req[r].detected_lang = Some(LANG_BN)
        /\ req[r].translated_text = Some(TXT_GO_TO_X)
        /\ req[r].place_name = Some(<<"x">>)
        /\ Responded(req[r])
        /\ Resp(req[r]).success
        /\ Resp(req[r]).detected_language = Some(LANG_BN)
        /\ RowsOf(req[r]) # {}

\* ------------------------------------------------------------------------
\* C21.  The store of navigation records is append-only: whatever step the
\* server takes (a stage of navigate, receive_gps, latest, track, geojson, a
\* page), the table navigation_requests after the step begins with the table
\* before it, so no record is deleted and every record keeps the value it
\* had when it was created.
\* ------------------------------------------------------------------------
C21_Kept ==
    /\ Len(records') >= Len(records)
    /\ SubSeq(records', 1, Len(records)) = records

C22_InRange(lat, lng) == lat >= -90 /\ lat <= 90 /\ lng >= -180 /\ lng <= 180

C22_FixInRange ==
    /\ \A r \in Requests :
          (\E i \in 1..Len(Stages) : Invoked(req[r], Stages[i])) =>
              C22_InRange(req[r].lat, req[r].lng)
    /\ \A i \in 1..Len(records) :
          C22_InRange(records[i].origin_lat, records[i].origin_lng)

\* ------------------------------------------------------------------------
\* C23.  The application app of main.py answers GET / with status 200 and
\* the message "Blind Stick Server is running", and GET /health with status
\* 200 and a body whose field "status" is "ok", whatever the state of the
\* server and without any credential.
\* ------------------------------------------------------------------------
C23_RootOk(answer) ==
    /\ answer.status = 200
    /\ "message" \in DOMAIN answer.body
    /\ answer.body.message = "Blind Stick Server is running"

C23_HealthOk(answer) ==
    /\ answer.status = 200
    /\ "status" \in DOMAIN answer.body
    /\ answer.body.status = "ok"

C23_MainAppAnswers ==
    (reply.op \in {"/", "/health"} /\ reply.app = "main") =>
        IF reply.op = "/" THEN C23_RootOk(reply) ELSE C23_HealthOk(reply)

\* ------------------------------------------------------------------------
\* C24.  Concurrent navigate requests do not influence each other.  The
\* request alone is the handler run on the request's own fields, with an
\* empty store and the server's configuration: C24_Alone(q) is every state
\* one stage can then leave the request in, over all the answers the stage
\* can receive.  In every interleaving, a step changes the fields of one
\* request only, and takes that request to a state it reaches alone, the
\* identifier the store assigns apart; so the response, which the last step
\* writes, is one the request gets alone.
\* ------------------------------------------------------------------------
C24_Received(q, inp) ==
    LET p == [q EXCEPT !.device_id = inp.device_id, !.lat = inp.lat,
                       !.lng = inp.lng, !.heading = inp.heading,
                       !.audio = inp.audio, !.x_api_key = inp.x_api_key]
    IN  IF Unauthorized(inp.x_api_key) THEN Raise(p, 401)
        ELSE IF Falsy(environ.GOOGLE_MAPS_API_KEY) THEN Return(p, ConfigErrorResponse)
        ELSE [p EXCEPT !.pc = "save_audio"]

C24_Saved(q, t, ok) ==
    IF ok
    THEN Logged([q EXCEPT !.pc = "transcribe",
                          !.audio_path = Some(AudioPath(AudioFilename(q.device_id, t)))],
                "save_audio", "ok")
    ELSE Raise(Logged(q, "save_audio", "raise"), 500)

C24_Transcribed(q, ans) ==
    LET res == transcribe_audio(q.audio, ans)
        p == [q EXCEPT !.transcript = res[1], !.detected_lang = res[2]]
    IN  IF Falsy(p.transcript)
        THEN Return(Logged(p, "transcribe", "none"), TranscribeFailureResponse(p))
        ELSE Logged([p EXCEPT !.pc = "translate"], "transcribe", "ok")

C24_Translated(q, ans) ==
    LET res == translate_to_english(Val(q.transcript), q.detected_lang, ans)
    IN  Logged([q EXCEPT !.translated_text = res[1], !.source_lang = res[2],
                         !.pc = "extract"],
               "translate",
               IF TranslateFails(q.detected_lang, ans) THEN "degraded" ELSE "ok")

C24_Extracted(q) ==
    LET p == [q EXCEPT !.place_name = extract_place_name(q.translated_text)]
    IN  IF Falsy(p.place_name)
        THEN Return(Logged(p, "extract", "none"), ExtractFailureResponse(p))
        ELSE Logged([p EXCEPT !.pc = "geocode"], "extract", "ok")

C24_Geocoded(q, ans) ==
    LET p == [q EXCEPT !.geocode_result =
                geocode_place(q.place_name, Val(environ.GOOGLE_MAPS_API_KEY), ans)]
    IN  IF p.geocode_result = None
        THEN Return(Logged(p, "geocode", "none"), GeocodeFailureResponse(p))
        ELSE Logged([p EXCEPT !.pc = "directions"], "geocode", "ok")

C24_Routed(q, ans) ==
    LET dest == Val(q.geocode_result)
        p == [q EXCEPT
                !.directions = get_directions(q.lat, q.lng, dest.lat, dest.lng,
                                              Val(environ.GOOGLE_MAPS_API_KEY), ans),
                !.gw_steps = IF ans.available /\ ~ans.fault /\ ans.result # <<>>
                                /\ ans.result[1].legs # <<>>
                             THEN Some(ans.result[1].legs[1].steps) ELSE None]
    IN  IF p.directions = None
        THEN Return(Logged(p, "directions", "none"), DirectionsFailureResponse(p))
        ELSE Logged([p EXCEPT !.pc = "store"], "directions", "ok")

\* alone, the store is empty and gives the record the identifier 1
C24_Stored(q, out) ==
    LET p == [q EXCEPT !.rec_ids = IF out = "commit_raises" THEN {} ELSE {1}]
    IN  IF out = "ok" THEN Return(Logged(p, "store", "ok"), SuccessResponse(p, 1))
        ELSE Raise(Logged(p, "store", IF out = "commit_raises" THEN "raise"
                                      ELSE "raise_after_commit"), 500)

C24_Alone(q) ==
    CASE q.pc = "idle" -> {C24_Received(q, inp) : inp \in NavInputs}
      [] q.pc = "save_audio" ->
            {C24_Saved(q, x[1], x[2]) : x \in (0..MaxTime) \X BOOLEAN}
      [] q.pc = "transcribe" -> {C24_Transcribed(q, ans) : ans \in SpeechAnswers}
      [] q.pc = "translate" -> {C24_Translated(q, ans) : ans \in TranslateAnswers}
      [] q.pc = "extract" -> {C24_Extracted(q)}
      [] q.pc = "geocode" -> {C24_Geocoded(q, ans) : ans \in GeocodeAnswers}
      [] q.pc = "directions" -> {C24_Routed(q, ans) : ans \in DirectionsAnswers}
      [] q.pc = "store" -> {C24_Stored(q, out) : out \in StoreAnswers}
      [] OTHER -> {}

\* the request without the identifier the store assigned
C24_WithoutId(q) ==
    [q EXCEPT !.rec_ids = {},
              !.response = IF q.response = None THEN None
                           ELSE Some([Val(q.response) EXCEPT !.request_id = 0])]

C24_OwnStep ==
    \A r \in Requests :
        req'[r] # req[r] =>
            /\ \A s \in Requests \ {r} : req'[s] = req[s]
            /\ C24_WithoutId(req'[r]) \in {C24_WithoutId(p) : p \in C24_Alone(req[r])}

C25_OwnAudio ==
    \A r \in Requests : \A i \in RowsOf(req[r]) :
        /\ records[i].audio_path # None
        /\ Val(records[i].audio_path) \in DOMAIN files
        /\ files[Val(records[i].audio_path)] = req[r].audio

C25_OwnPath ==
    \A i, j \in 1..Len(records) :
        i # j => records[i].audio_path # records[j].audio_path

C25_AudioNotShared == C25_OwnAudio /\ C25_OwnPath

\* ------------------------------------------------------------------------
\* C26.  For every navigate request answered with success, the store holds
\* exactly one record whose id is the response's request_id; that record has
\* the transcript, detected_language, destination_place, destination_lat and
\* destination_lng of the response, the origin and heading the request
\* submitted, and as destination_place the address of the Geocoding
\* Gateway's result.
\* ------------------------------------------------------------------------
C26_Succeeded(q) == Responded(q) /\ Resp(q).success

C26_RecordOf(q) == {i \in 1..Len(records) : records[i].id = Resp(q).request_id}

C26_Agrees(q, row) ==
    /\ row.transcript = Resp(q).transcript
    /\ row.detected_language = Resp(q).detected_language
    /\ row.destination_place = Resp(q).destination_place
    /\ row.destination_lat = Resp(q).destination_lat
    /\ row.destination_lng = Resp(q).destination_lng
    /\ row.origin_lat = q.lat
    /\ row.origin_lng = q.lng
    /\ row.heading = q.heading
    /\ row.destination_place = Some(Val(q.geocode_result).formatted_address)

C26_RecordMatchesResponse ==
    \A r \in Requests :
        C26_Succeeded(req[r]) =>
            /\ Cardinality(C26_RecordOf(req[r])) = 1
            /\ \A i \in C26_RecordOf(req[r]) : C26_Agrees(req[r], records[i])

\* C26 as claimed: moreover the destination_place of the record is never the
\* place text extracted from the speech
C26_AsClaimed ==
    \A r \in Requests :
        C26_Succeeded(req[r]) =>
            /\ Cardinality(C26_RecordOf(req[r])) = 1
            /\ \A i \in C26_RecordOf(req[r]) :
                  /\ C26_Agrees(req[r], records[i])
                  /\ records[i].destination_place # req[r].place_name

\* a request with a heading asked for "x", the geocoder resolved it to its
\* own address, and the request was answered with a route and recorded
C26_Witness ==
    \E r \in Requests :
        /\ C26_Succeeded(req[r])
        /\ req[r].heading = Some(180)
        /\ req[r].place_name = Some(<<"x">>)
        /\ Val(req[r].geocode_result).formatted_address = ADDR_X
        /\ \E i \in C26_RecordOf(req[r]) :
              /\ records[i].destination_place = Some(ADDR_X)
              /\ records[i].heading = Some(180)
              /\ records[i].origin_lat = 23

\* ------------------------------------------------------------------------
\* C27.  After any sequence of receive_gps calls, GET /latest for a device
\* answers 404 exactly when no point of that device is stored, and otherwise
\* returns the stored point of that device whose (ts, id) is greatest in
\* lexicographic order, never a point of another device.  Every stored point
\* was posted with the right key, and a receive_gps call answered 401 leaves
\* the table, and so the result of /latest for every device, as it was.
\* ------------------------------------------------------------------------
C27_OfDevice(d) == {i \in 1..Len(points) : points[i].device_id = d}

C27_Greatest(i, d) ==
    \A j \in C27_OfDevice(d) :
        \/ points[j].ts < points[i].ts
        \/ points[j].ts = points[i].ts /\ points[j].id <= points[i].id

C27_LatestIsGreatest ==
    \A d \in Devices :
        LET out == latest(points, d)
        IN  /\ out.status \in {200, 404}
            /\ out.status = 404 <=> C27_OfDevice(d) = {}
            /\ out.status = 200 =>
                  \E i \in C27_OfDevice(d) : out.body = points[i] /\ C27_Greatest(i, d)

C27_PostedWithKey(row) ==
    \E data \in GpsInputs :
        /\ data.x_api_key = Some(API_KEY)
        /\ data.lat \in -90..90
        /\ data.lon \in -180..180
        /\ row.device_id = data.device_id
        /\ row.lat = data.lat
        /\ row.lon = data.lon
        /\ row.hdop = data.hdop

C27_Stored == \A i \in 1..Len(points) : C27_PostedWithKey(points[i])

C27_Unauthorised ==
    (reply'.op = "receive_gps" /\ reply'.status = 401) =>
        /\ points' = points
        /\ \A d \in Devices : latest(points', d) = latest(points, d)

C27_Latest == [](C27_LatestIsGreatest /\ C27_Stored) /\ [][C27_Unauthorised]_vars

\* a device's point was stamped by the server's clock, a later post of the
\* same device carried an older timestamp of its own, and /latest returned
\* the first point
C27_Witness ==
    /\ Len(points) = 2
    /\ points[1].device_id = points[2].device_id
    /\ points[1].ts > points[2].ts
    /\ reply.op = "latest"
    /\ reply.status = 200
    /\ reply.body = points[1]

====
